---- MODULE Spec2Model ----
(***************************************************************************)
(* A model of the Binder IPC driver core in src/module/new/binder.c:       *)
(* the per-process object tree, the flat-object translator, the            *)
(* transaction engine with its per-thread inbox and process queue, the     *)
(* notifier engine, the looper controller and process teardown.            *)
(*                                                                         *)
(* Pointers are modelled as small integers: a binder pointer is a member   *)
(* of Binders, a user cookie a member of Cookies, the address of the       *)
(* process queue of p is PQ(p) and the address of the inbox of thread t of *)
(* p is TQ(p, t).  NULL is 0.                                              *)
(***************************************************************************)
EXTENDS Integers, Sequences, FiniteSets, TLC

\* ------------------------------------------------------------------ bounds
NProcs == 3
NThreads == 2
NBinders == 2
NCookies == 1
MaxObjs == 4

Procs == 1..NProcs
Threads == 1..NThreads
Binders == 1..NBinders
Cookies == 1..NCookies
NULL == 0

\* size_t arithmetic: pointer differences are taken modulo PtrMod
PtrBits == 16
PtrMod == 2 ^ PtrBits
ToSizeT(x) == x % PtrMod

PQ(p) == 16 * p
TQ(p, t) == 16 * p + t
Tids == Procs \X Threads
QIds == {PQ(p) : p \in Procs} \cup {TQ(p, t) : p \in Procs, t \in Threads}

\* an uninitialised word of a kmalloc'ed record: any value
Garbage == {NULL} \cup Cookies

DescTypes == {"BINDER", "WEAK_BINDER", "HANDLE", "WEAK_HANDLE", "OTHER"}
Descs == [type : DescTypes, binder : Binders, cookie : Cookies \cup {PQ(p) : p \in Procs}]
\* the descriptors a sender marshals for an object of its own, and the
\* descriptors that name an object by its owner's queue
OwnDescs == {bp \in Descs : bp.type \in {"BINDER", "WEAK_BINDER"} /\ bp.cookie \in Cookies}
RefDescs == {bp \in Descs : bp.type \in {"HANDLE", "WEAK_HANDLE"} /\ bp.cookie \notin Cookies}

\* sizes, in bytes, of the records of the command streams
CmdSize == 4
TdataSize == 40
NotifierSize == 8
FlatObjSize == 16
OffsetSize == 4
PtrSize == 4
MAX_TRANSACTION_SIZE == 4000
\* errno values; a handler returns them negated
EPERM == 1
EAGAIN == 11
ENOMEM == 12
EBUSY == 16
EFAULT == 14
EINVAL == 22
ENOSPC == 28
\* the payload size of a transaction that carries data
DataLen == 24
\* the bounds on the messages allocated, on the ioctl calls made and on the
\* table entries made by the translator steps that run beside the ioctls
MaxMsgs == 3
SeedObjs == 2
ReadsBound == 2

VARIABLES
    alive,            \* the processes whose device is open
    non_block,        \* proc->non_block
    objs,             \* proc->obj_tree
    queue,            \* the entries of every msg_queue
    closed,           \* the msg_queues destroyed
    pending_replies,  \* thread->pending_replies
    incoming,         \* thread->incoming_transactions, head first
    last_error,       \* thread->last_error
    looper,           \* thread->state
    max_threads, num_loopers, pending_loopers,
    rd,               \* a thread's position in the ioctl it is in
    context_mgr_obj,  \* the queue of the owner of the object it points to, or NULL
    context_mgr_uid,
    gh                \* history, for stating the claims

vars == <<alive, non_block, objs, queue, closed, pending_replies, incoming,
          last_error, looper, max_threads, num_loopers, pending_loopers, rd,
          context_mgr_obj, context_mgr_uid, gh>>

\* the state as one record, for the handlers to map
St == [alive |-> alive, non_block |-> non_block, objs |-> objs, queue |-> queue,
       closed |-> closed, pending_replies |-> pending_replies, incoming |-> incoming,
       last_error |-> last_error, looper |-> looper, max_threads |-> max_threads,
       num_loopers |-> num_loopers, pending_loopers |-> pending_loopers,
       rd |-> rd, context_mgr_obj |-> context_mgr_obj,
       context_mgr_uid |-> context_mgr_uid, gh |-> gh]

Commit(s) ==
    /\ alive' = s.alive
    /\ non_block' = s.non_block
    /\ objs' = s.objs
    /\ queue' = s.queue
    /\ closed' = s.closed
    /\ pending_replies' = s.pending_replies
    /\ incoming' = s.incoming
    /\ last_error' = s.last_error
    /\ looper' = s.looper
    /\ max_threads' = s.max_threads
    /\ num_loopers' = s.num_loopers
    /\ pending_loopers' = s.pending_loopers
    /\ rd' = s.rd
    /\ context_mgr_obj' = s.context_mgr_obj
    /\ context_mgr_uid' = s.context_mgr_uid
    /\ gh' = s.gh

\* -------------------------------------------------------------- object tree
\* struct binder_obj linked into proc->obj_tree; node ids are allocation order
EmptyTree == [root |-> NULL, node |-> <<>>]

SetF(t, i, f, v) == IF i = NULL THEN t ELSE [t EXCEPT !.node[i][f] = v]

obj_id_cmp(ao, ab, bo, bb) ==
    LET s1 == ToSizeT(ao - bo)
        s2 == ToSizeT(ab - bb)
    IN  IF s1 # 0 THEN (IF s1 > 0 THEN 1 ELSE -1)
        ELSE IF s2 # 0 THEN (IF s2 > 0 THEN 1 ELSE -1)
        ELSE 0

RECURSIVE FindFrom(_, _, _, _)
FindFrom(t, i, owner, binder) ==
    IF i = NULL THEN NULL
    ELSE LET r == obj_id_cmp(owner, binder, t.node[i].owner, t.node[i].binder)
         IN  IF r < 0 THEN FindFrom(t, t.node[i].left, owner, binder)
             ELSE IF r > 0 THEN FindFrom(t, t.node[i].right, owner, binder)
             ELSE i

\* _binder_find_obj: the node found, or NULL
binder_find_obj_(t, owner, binder) == FindFrom(t, t.root, owner, binder)

__rb_rotate_left(t, x) ==
    LET y  == t.node[x].right
        yl == t.node[y].left
        xp == t.node[x].parent
        t1 == SetF(t, x, "right", yl)
        t2 == SetF(t1, yl, "parent", x)
        t3 == SetF(t2, y, "parent", xp)
        t4 == IF xp = NULL THEN [t3 EXCEPT !.root = y]
              ELSE IF t.node[xp].left = x THEN SetF(t3, xp, "left", y)
              ELSE SetF(t3, xp, "right", y)
        t5 == SetF(t4, y, "left", x)
    IN  SetF(t5, x, "parent", y)

__rb_rotate_right(t, x) ==
    LET y  == t.node[x].left
        yr == t.node[y].right
        xp == t.node[x].parent
        t1 == SetF(t, x, "left", yr)
        t2 == SetF(t1, yr, "parent", x)
        t3 == SetF(t2, y, "parent", xp)
        t4 == IF xp = NULL THEN [t3 EXCEPT !.root = y]
              ELSE IF t.node[xp].right = x THEN SetF(t3, xp, "right", y)
              ELSE SetF(t3, xp, "left", y)
        t5 == SetF(t4, y, "right", x)
    IN  SetF(t5, x, "parent", y)

IsRed(t, i) == i # NULL /\ t.node[i].red

RECURSIVE rb_insert_color(_, _)
rb_insert_color(t, n) ==
    LET p == t.node[n].parent
    IN  IF ~IsRed(t, p) THEN SetF(t, t.root, "red", FALSE)
        ELSE
          LET g == t.node[p].parent
          IN  IF p = t.node[g].left
              THEN LET u == t.node[g].right
                   IN  IF IsRed(t, u)
                       THEN rb_insert_color(
                              SetF(SetF(SetF(t, u, "red", FALSE), p, "red", FALSE), g, "red", TRUE), g)
                       ELSE LET inner == t.node[p].right = n
                                t1 == IF inner THEN __rb_rotate_left(t, p) ELSE t
                                p1 == IF inner THEN n ELSE p
                                n1 == IF inner THEN p ELSE n
                                t2 == SetF(SetF(t1, p1, "red", FALSE), g, "red", TRUE)
                            IN  rb_insert_color(__rb_rotate_right(t2, g), n1)
              ELSE LET u == t.node[g].left
                   IN  IF IsRed(t, u)
                       THEN rb_insert_color(
                              SetF(SetF(SetF(t, u, "red", FALSE), p, "red", FALSE), g, "red", TRUE), g)
                       ELSE LET inner == t.node[p].left = n
                                t1 == IF inner THEN __rb_rotate_right(t, p) ELSE t
                                p1 == IF inner THEN n ELSE p
                                n1 == IF inner THEN p ELSE n
                                t2 == SetF(SetF(t1, p1, "red", FALSE), g, "red", TRUE)
                            IN  rb_insert_color(__rb_rotate_left(t2, g), n1)

\* the walk of _binder_new_obj: the node with the key, or the link place
RECURSIVE Descend(_, _, _, _, _, _)
Descend(t, i, par, side, owner, binder) ==
    IF i = NULL THEN [found |-> NULL, parent |-> par, side |-> side]
    ELSE LET r == obj_id_cmp(owner, binder, t.node[i].owner, t.node[i].binder)
         IN  IF r < 0 THEN Descend(t, t.node[i].left, i, "left", owner, binder)
             ELSE IF r > 0 THEN Descend(t, t.node[i].right, i, "right", owner, binder)
             ELSE [found |-> i, parent |-> par, side |-> side]

\* _binder_new_obj: [t |-> the tree after, obj |-> the node returned];
\* real_cookie of a new node is whatever kmalloc left there
binder_new_obj_(t, owner, binder, junk) ==
    LET d == Descend(t, t.root, NULL, "root", owner, binder)
    IN  IF d.found # NULL THEN [t |-> t, obj |-> d.found]
        ELSE LET n  == Len(t.node) + 1
                 nd == [owner |-> owner, binder |-> binder, real_cookie |-> junk,
                        notifiers |-> <<>>, parent |-> d.parent,
                        left |-> NULL, right |-> NULL, red |-> TRUE]
                 t1 == [t EXCEPT !.node = Append(@, nd)]
                 t2 == IF d.parent = NULL THEN [t1 EXCEPT !.root = n]
                       ELSE SetF(t1, d.parent, d.side, n)
             IN  [t |-> rb_insert_color(t2, n), obj |-> n]

\* ---------------------------------------------------- flat-object translator
HandleOf(type) == IF type = "BINDER" THEN "HANDLE" ELSE "WEAK_HANDLE"
BinderOf(type) == IF type = "HANDLE" THEN "BINDER" ELSE "WEAK_BINDER"

\* bcmd_write_flat_obj in process p: [r, t, bp]
bcmd_write_flat_obj(t, p, bp) ==
    IF bp.type \in {"BINDER", "WEAK_BINDER"}
    THEN LET o  == binder_find_obj_(t, PQ(p), bp.binder)
             nw == binder_new_obj_(t, PQ(p), bp.binder, bp.cookie)
             t1 == IF o = NULL THEN SetF(nw.t, nw.obj, "real_cookie", bp.cookie) ELSE t
             ob == IF o = NULL THEN nw.obj ELSE o
         IN  [r |-> "OK", t |-> t1,
              bp |-> [type |-> HandleOf(bp.type), binder |-> bp.binder,
                      cookie |-> t1.node[ob].owner]]
    ELSE IF bp.type \in {"HANDLE", "WEAK_HANDLE"}
    THEN IF binder_find_obj_(t, bp.cookie, bp.binder) = NULL
         THEN [r |-> "EINVAL", t |-> t, bp |-> bp]
         ELSE [r |-> "OK", t |-> t, bp |-> bp]
    ELSE [r |-> "EINVAL", t |-> t, bp |-> bp]

\* bcmd_read_flat_obj in process p: [r, t, bp]
bcmd_read_flat_obj(t, p, bp, junk) ==
    IF bp.type \in {"HANDLE", "WEAK_HANDLE"}
    THEN LET o == binder_find_obj_(t, bp.cookie, bp.binder)
         IN  IF o # NULL
             THEN IF bp.cookie = PQ(p)
                  THEN [r |-> "OK", t |-> t,
                        bp |-> [type |-> BinderOf(bp.type), binder |-> bp.binder,
                                cookie |-> t.node[o].real_cookie]]
                  ELSE [r |-> "OK", t |-> t, bp |-> bp]
             ELSE [r |-> "OK", bp |-> bp,
                   t |-> binder_new_obj_(t, bp.cookie, bp.binder,
                                         IF bp.cookie = PQ(p) THEN junk ELSE NULL).t]
    ELSE [r |-> "EFAULT", t |-> t, bp |-> bp]


\* ------------------------------------------------------------------ messages
NoDesc == [type |-> "NONE", binder |-> NULL, cookie |-> NULL]
MSG_BUF_ALIGN(n) == ((n + PtrSize - 1) \div PtrSize) * PtrSize
MSG_BUF_SIZE(ds, os) == MSG_BUF_ALIGN(ds) + MSG_BUF_ALIGN(os)

ProcOf(tid) == tid[1]
InboxOf(tid) == TQ(tid[1], tid[2])

\* struct bcmd_msg with its bcmd_msg_buf (one descriptor at most); from and id
\* are history: the sending thread and a serial number
NewMsg(type, owner, binder, oneway, cookie, rq, ds, noffs, bp, bs, from, id) ==
    [type |-> type, owner |-> owner, binder |-> binder, oneway |-> oneway,
     cookie |-> cookie, reply_queue |-> rq, data_size |-> ds, noffs |-> noffs,
     bp |-> bp, buf_size |-> bs, from |-> from, id |-> id]

\* the queues that hold the message id of type type
Holds(s, id, type) ==
    {q \in QIds : \E i \in 1..Len(s.queue[q]) :
                      s.queue[q][i].id = id /\ s.queue[q][i].type = type}

\* bcmd_write_msg / _bcmd_write_msg: the write fails on a destroyed queue
bcmd_write_msg(s, q, m) ==
    IF q \in QIds /\ q \notin s.closed
    THEN [ok |-> TRUE, s |-> [s EXCEPT !.queue[q] = Append(@, m)]]
    ELSE [ok |-> FALSE, s |-> s]

\* no error latched
NoError == "NONE"

\* thread->last_error = err
SetError(s, tid, err) ==
    [s EXCEPT !.last_error[tid] = err,
              !.gh.err[tid] = [code |-> err, reads |-> 0, seen |-> FALSE]]

\* the thread never comes back from the call it is in: "hung" in a loop that
\* does not end, "dead" after an oops
Stuck(s, tid, how) == [s EXCEPT !.rd[tid].pc = how]

\* ---------------------------------------------------------------- write path
\* the while loop of bcmd_write_msg_buf: p is never advanced, so the loop ends
\* only by an error on the first descriptor
RECURSIVE WriteOffsets(_, _, _)
\* w is what bcmd_write_flat_obj made of the descriptor
WriteOffsetsOn(t, p, bp, w) ==
    IF w.r # "OK" THEN w
    ELSE IF w.t = t /\ w.bp = bp THEN [r |-> "HANG", t |-> t, bp |-> bp]
    ELSE WriteOffsets(w.t, p, w.bp)
WriteOffsets(t, p, bp) == WriteOffsetsOn(t, p, bp, bcmd_write_flat_obj(t, p, bp))

\* bcmd_write_msg_buf: [r, t, bp]
bcmd_write_msg_buf(t, p, td) ==
    IF ~td.copy_ok THEN [r |-> "EFAULT", t |-> t, bp |-> td.bp]
    ELSE IF td.noffs = 0 THEN [r |-> "OK", t |-> t, bp |-> td.bp]
    ELSE WriteOffsets(t, p, td.bp)

\* the BR_TRANSACTION_COMPLETE tail of bcmd_write_transaction
WriteComplete(s, tid, td, nd) ==
    IF nd.alloc = "fail2" THEN SetError(s, tid, "BR_FAILED_REPLY")
    ELSE LET m == NewMsg("BR_TRANSACTION_COMPLETE", NULL, NULL, td.oneway, NULL, NULL,
                         0, 0, NoDesc, 0, tid, 0)
             w == bcmd_write_msg(s, InboxOf(tid), m)
         IN  IF w.ok THEN w.s ELSE SetError(s, tid, "BR_FAILED_REPLY")

\* thread->pending_replies++ of bcmd_write_transaction
CountEvery(s, tid, td, bcmd) == [s EXCEPT !.pending_replies[tid] = @ + 1]
CountPending(s, tid, td, bcmd) ==
    IF bcmd = "BC_TRANSACTION" /\ ~td.oneway
    THEN [s EXCEPT !.pending_replies[tid] = @ + 1] ELSE s

\* bcmd_write_transaction from the point where the payload is loaded (wb): the
\* test of bcmd_write_msg_buf's result takes its success for a failure
SendLoaded(s, tid, td, bcmd, nd, q, owner, binder, bs, wb) ==
    LET p  == ProcOf(tid)
        s1 == [s EXCEPT !.objs[p] = wb.t, !.gh.nmsg = @ + 1]
        m  == NewMsg(bcmd, owner, binder, td.oneway, NULL,
                     IF td.oneway THEN NULL ELSE InboxOf(tid),
                     td.data_size, td.noffs, wb.bp, bs, tid, s.gh.nmsg + 1)
        w  == bcmd_write_msg(s1, q, m)
        s2 == CountPending(w.s, tid, td, bcmd)
    IN  IF wb.r = "HANG" THEN Stuck(s1, tid, "hung")
        ELSE IF wb.r = "OK" THEN SetError(s1, tid, "BR_FAILED_REPLY")
        ELSE IF ~w.ok THEN SetError(s1, tid, "BR_DEAD_REPLY")
        ELSE WriteComplete(s2, tid, td, nd)

\* bcmd_write_transaction from the point where msg and q are known
SendMsg(s, tid, td, bcmd, nd, q, owner, binder, bs) ==
    SendLoaded(s, tid, td, bcmd, nd, q, owner, binder, bs,
               IF td.data_size > 0
               THEN bcmd_write_msg_buf(s.objs[ProcOf(tid)], ProcOf(tid), td)
               ELSE [r |-> "SKIP", t |-> s.objs[ProcOf(tid)], bp |-> td.bp])

\* the queues of the live processes other than p that own the object binder
\* and to whose object p's table holds a reference
RefOwners(s, p, binder) ==
    {PQ(a) : a \in {a \in s.alive \ {p} :
        /\ binder_find_obj_(s.objs[p], PQ(a), binder) # NULL
        /\ binder_find_obj_(s.objs[a], PQ(a), binder) # NULL}}

NoTxn == [on |-> FALSE, tid |-> <<0, 0>>, handle |-> NULL, owners |-> {}, id |-> 0,
          dest |-> {}]
NoRx == [on |-> FALSE, q |-> NULL, ptr |-> NULL, cookie |-> NULL, real |-> NULL]
NoReply == [on |-> FALSE, tid |-> <<0, 0>>, empty |-> FALSE, expect |-> NULL,
            dest |-> {}, err |-> NoError]

\* the closed queues of the processes other than p that p's table records as
\* the owner of the object binder
ClosedOwners(s, p, binder) ==
    {PQ(a) : a \in {a \in Procs \ {p} :
        /\ PQ(a) \in s.closed
        /\ binder_find_obj_(s.objs[p], PQ(a), binder) # NULL}}

NoCd == [on |-> FALSE, tid |-> <<0, 0>>, pr0 |-> 0, pr1 |-> 0, reads |-> 0, seen |-> FALSE]

\* history of the first BC_TRANSACTION on a handle whose object's owner has
\* closed its queue: pending_replies before and after
NoteCd(s0, s, tid, td) ==
    IF ClosedOwners(s0, ProcOf(tid), td.handle) # {} /\ ~s0.gh.cd.on
    THEN [s EXCEPT !.gh.cd = [on |-> TRUE, tid |-> tid,
                              pr0 |-> s0.pending_replies[tid],
                              pr1 |-> s.pending_replies[tid],
                              reads |-> 0, seen |-> FALSE]]
    ELSE s

\* history of a BC_TRANSACTION on a handle that refers to another process's
\* object, no allocation failing and no payload carried
NoteTxn(s0, s, tid, td, nd) ==
    LET own == RefOwners(s0, ProcOf(tid), td.handle)
        id  == s0.gh.nmsg + 1
    IN  IF own # {} /\ nd.alloc = "ok" /\ td.data_size = 0
        THEN [s EXCEPT !.gh.txn = [on |-> TRUE, tid |-> tid, handle |-> td.handle,
                                   owners |-> own, id |-> id,
                                   dest |-> Holds(s, id, "BC_TRANSACTION")],
                       !.gh.rx = NoRx]
        ELSE NoteCd(s0, s, tid, td)

\* history of a BC_REPLY, no allocation failing and no payload carried
NoteReply(s0, s, tid, td, nd) ==
    LET ord == s0.gh.order[tid]
        s1  == [s EXCEPT !.gh.order[tid] =
                   IF ord = <<>> THEN ord ELSE SubSeq(ord, 1, Len(ord) - 1)]
    IN  IF nd.alloc = "ok" /\ td.data_size = 0
        THEN [s1 EXCEPT !.gh.reply =
                 [on |-> TRUE, tid |-> tid, empty |-> ord = <<>>,
                  expect |-> IF ord = <<>> THEN NULL ELSE InboxOf(ord[Len(ord)].from),
                  dest |-> Holds(s, s0.gh.nmsg + 1, "BC_REPLY"),
                  err |-> s.last_error[tid]]]
        ELSE s1

\* bcmd_write_transaction.  obj_id_init(&msg->obj_id, NULL, NULL) reads
\* proc->queue of a NULL proc: the thread dies there (nd.oops) or goes on with
\* the word it read
bcmd_write_transaction(s, tid, td, bcmd, nd) ==
    LET p == ProcOf(tid)
        t == s.objs[p]
        bs == MSG_BUF_SIZE(td.data_size, td.noffs * OffsetSize)
    IN  IF bcmd = "BC_TRANSACTION"
        THEN LET o == IF td.handle = NULL THEN s.context_mgr_obj
                      ELSE binder_find_obj_(t, PQ(p), td.handle)
                 r == IF o = NULL \/ nd.alloc = "fail1"
                      THEN SetError(s, tid, "BR_FAILED_REPLY")
                      ELSE IF td.handle = NULL
                      THEN SendMsg(s, tid, td, bcmd, nd, o, o, NULL, bs)
                      ELSE SendMsg(s, tid, td, bcmd, nd, t.node[o].owner,
                                   t.node[o].owner, t.node[o].binder, bs)
             IN  NoteTxn(s, r, tid, td, nd)
        ELSE LET r == IF s.incoming[tid] = <<>> THEN SetError(s, tid, "BR_FAILED_REPLY")
                      ELSE LET top  == Head(s.incoming[tid])
                               s1   == [s EXCEPT !.incoming[tid] = Tail(@)]
                               grow == bs > top.buf_size
                           IN  IF grow /\ nd.alloc = "fail1"
                               THEN SetError(s1, tid, "BR_FAILED_REPLY")
                               ELSE IF nd.oops THEN Stuck(s1, tid, "dead")
                               ELSE SendMsg(s1, tid, td, bcmd, nd, top.reply_queue, NULL, NULL,
                                            IF grow THEN bs ELSE top.buf_size)
             IN  NoteReply(s, r, tid, td, nd)

\* history of a BC_TRANSACTION or BC_REPLY that carries a payload and got as
\* far as loading it: good, the payload can be copied and its descriptor is one
\* bcmd_write_flat_obj accepts; enq, the queues that hold the message after
\* the command; err, last_error after it; hung, the thread never returned
NoPay == [on |-> FALSE, good |-> FALSE, enq |-> {}, err |-> NoError, hung |-> FALSE]

NotePay(s0, s, tid, td, bcmd) ==
    IF td.data_size > 0 /\ s.gh.nmsg = s0.gh.nmsg + 1
    THEN [s EXCEPT !.gh.pay =
            [on |-> TRUE,
             good |-> /\ td.copy_ok
                      /\ td.noffs > 0 =>
                            bcmd_write_flat_obj(s0.objs[ProcOf(tid)], ProcOf(tid), td.bp).r = "OK",
             enq |-> Holds(s, s.gh.nmsg, bcmd),
             err |-> s.last_error[tid],
             hung |-> s.rd[tid].pc = "hung"]]
    ELSE s

\* history of the first payload-free BC_TRANSACTION or BC_REPLY of a thread with
\* an empty inbox that was enqueued, no allocation failing: queued, the inbox
\* then holds a BR_TRANSACTION_COMPLETE and nothing else; reads, seen, ret: the
\* thread's next read has returned, with that command, with that value
NoAck == [on |-> FALSE, tid |-> <<0, 0>>, queued |-> FALSE, reads |-> 0,
          seen |-> FALSE, ret |-> 0]

NoteAck(s0, s, tid, td, bcmd, nd) ==
    IF /\ ~s0.gh.ack.on /\ nd.alloc = "ok" /\ s0.queue[InboxOf(tid)] = <<>>
       /\ td.data_size = 0
       /\ s.gh.nmsg = s0.gh.nmsg + 1
       /\ Holds(s, s.gh.nmsg, bcmd) # {}
    THEN [s EXCEPT !.gh.ack =
            [NoAck EXCEPT !.on = TRUE, !.tid = tid,
                          !.queued = /\ Len(s.queue[InboxOf(tid)]) = 1
                                     /\ s.queue[InboxOf(tid)][1].type = "BR_TRANSACTION_COMPLETE"
                                     /\ s.queue[InboxOf(tid)][1].data_size = 0]]
    ELSE s

\* history: owed[tid] counts the synchronous BC_TRANSACTIONs of tid that were
\* enqueued, less the BR_REPLY commands tid has read
NoteOwed(s0, s, tid, td, bcmd) ==
    IF /\ bcmd = "BC_TRANSACTION" /\ ~td.oneway
       /\ s.gh.nmsg = s0.gh.nmsg + 1
       /\ Holds(s, s.gh.nmsg, bcmd) # {}
    THEN [s EXCEPT !.gh.owed[tid] = @ + 1]
    ELSE s

\* the calls of bcmd_write_flat_obj the while loop of bcmd_write_msg_buf has
\* made on the one descriptor it looks at when its outcome is settled: by an
\* error, or by a call that changes nothing any more, after which the loop
\* repeats that call for ever
RECURSIVE WriteVisits(_, _, _)
WriteVisitsOn(t, p, bp, w) ==
    IF w.r # "OK" \/ (w.t = t /\ w.bp = bp) THEN 1 ELSE 1 + WriteVisits(w.t, p, w.bp)
WriteVisits(t, p, bp) == WriteVisitsOn(t, p, bp, bcmd_write_flat_obj(t, p, bp))

\* history of the translation loops on the latest message with descriptors
\* (n of them) of which the translator accepts the first: w for the loop of
\* bcmd_write_msg_buf, r for the loop of bcmd_read_transaction; left is how the
\* loop was left ("OK": p reached ep; an errno; "HANG": never), visits the
\* translator calls made till then, moved whether the message was enqueued
\* (w) or handed to the reader (r)
NoLoop == [on |-> FALSE, n |-> 0, left |-> "", visits |-> 0, moved |-> FALSE]
NoXl == [w |-> NoLoop, r |-> NoLoop]

NoteXw(s0, s, tid, td, bcmd) ==
    IF /\ td.data_size > 0 /\ td.noffs > 0 /\ td.copy_ok
       /\ s.gh.nmsg = s0.gh.nmsg + 1
       /\ bcmd_write_flat_obj(s0.objs[ProcOf(tid)], ProcOf(tid), td.bp).r = "OK"
    THEN [s EXCEPT !.gh.xl.w =
            [on |-> TRUE, n |-> td.noffs,
             left |-> WriteOffsets(s0.objs[ProcOf(tid)], ProcOf(tid), td.bp).r,
             visits |-> WriteVisits(s0.objs[ProcOf(tid)], ProcOf(tid), td.bp),
             moved |-> Holds(s, s.gh.nmsg, bcmd) # {}]]
    ELSE s

\* bcmd_write_transaction, with the history kept; s is its result
SendNoted(s0, s, tid, td, bcmd, nd) ==
    NoteXw(s0, NoteOwed(s0, NoteAck(s0, NotePay(s0, s, tid, td, bcmd), tid, td, bcmd, nd),
                        tid, td, bcmd),
           tid, td, bcmd)

NoDn == [on |-> FALSE, b |-> <<0, 0>>, a |-> NULL, binder |-> NULL, d |-> NULL,
         dest |-> {}, released |-> FALSE, reads |-> 0, dead |-> 0]

\* history of a BC_REQUEST_DEATH_NOTIFICATION on a handle that refers to another
\* process's object, no allocation failing
NoteDn(s0, s, tid, nf, bcmd, nd) ==
    LET own == RefOwners(s0, ProcOf(tid), nf.binder)
    IN  IF own # {} /\ nd.alloc = "ok" /\ bcmd = "BC_REQUEST_DEATH_NOTIFICATION"
           /\ ~s0.gh.dn.on
        THEN [s EXCEPT !.gh.dn = [NoDn EXCEPT !.on = TRUE, !.b = tid,
                                              !.a = CHOOSE q \in own : TRUE,
                                              !.binder = nf.binder, !.d = nf.cookie,
                                              !.dest = Holds(s, s0.gh.nmsg + 1, bcmd)]]
        ELSE s

\* bcmd_write_notifier, its thread being the calling one
bcmd_write_notifier(s, tid, nf, bcmd, nd) ==
    LET p == ProcOf(tid)
        t == s.objs[p]
        o == binder_find_obj_(t, PQ(p), nf.binder)
        r == IF o = NULL \/ nd.alloc = "fail1" THEN SetError(s, tid, "BR_FAILED_REPLY")
             ELSE LET m == NewMsg(bcmd, t.node[o].owner, t.node[o].binder, FALSE, nf.cookie,
                                  PQ(p), 0, 0, NoDesc, 0, tid, s.gh.nmsg + 1)
                      w == bcmd_write_msg([s EXCEPT !.gh.nmsg = @ + 1], t.node[o].owner, m)
                  IN  IF w.ok THEN w.s ELSE SetError(w.s, tid, "BR_DEAD_REPLY")
    IN  NoteDn(s, r, tid, nf, bcmd, nd)

BINDER_LOOPER_STATE_ENTERED == 2
\* binder.c tests and clears BINDER_LOOPER_STATE_ACTIVE without defining it: the
\* bit that BC_ENTER_LOOPER sets, as the looper state machine is specified
BINDER_LOOPER_STATE_ACTIVE == 2
HasBit(x, b) == (x \div b) % 2 = 1
ClearBit(x, b) == IF HasBit(x, b) THEN x - b ELSE x
SetBit(x, b) == IF HasBit(x, b) THEN x ELSE x + b

\* bcmd_write_looper; thread->state is not set by binder_new_thread: its first
\* use reads what kmalloc left there (nd.st0)
bcmd_write_looper(s, tid, bcmd, nd) ==
    LET p  == ProcOf(tid)
        st == IF s.looper[tid] < 0 THEN nd.st0 ELSE s.looper[tid]
        s0 == [s EXCEPT !.looper[tid] = st]
    IN  IF bcmd = "BC_ENTER_LOOPER"
        THEN IF HasBit(st, BINDER_LOOPER_STATE_ACTIVE) THEN SetError(s0, tid, "BR_FAILED_REPLY")
             ELSE [s0 EXCEPT !.looper[tid] = SetBit(st, BINDER_LOOPER_STATE_ENTERED),
                             !.num_loopers[p] = @ + 1]
        ELSE IF bcmd = "BC_EXIT_LOOPER"
        THEN IF HasBit(st, BINDER_LOOPER_STATE_ENTERED)
             THEN [s0 EXCEPT !.looper[tid] = ClearBit(st, BINDER_LOOPER_STATE_ACTIVE),
                             !.num_loopers[p] = @ - 1]
             ELSE SetError(s0, tid, "BR_FAILED_REPLY")
        ELSE IF bcmd = "BC_REGISTER_LOOPER"
        THEN IF HasBit(st, BINDER_LOOPER_STATE_ACTIVE) THEN SetError(s0, tid, "BR_FAILED_REPLY")
             ELSE [s0 EXCEPT !.pending_loopers[p] = @ - 1,
                             !.gh.spawnOut[p] = FALSE]
        ELSE SetError(s0, tid, "BR_FAILED_REPLY")

\* history of the looper commands: entered[tid], the last of the thread's
\* BC_ENTER_LOOPER / BC_EXIT_LOOPER that was accepted is a BC_ENTER_LOOPER; lp,
\* the last looper command: was, entered before it; rej, it was refused; dn,
\* what it added to num_loopers; same, it left the thread's state and the
\* process's counters as they were
NoLp == [on |-> FALSE, cmd |-> "", was |-> FALSE, rej |-> FALSE, dn |-> 0, same |-> TRUE]

NoteLooper(s0, s, tid, bcmd, st) ==
    LET p   == ProcOf(tid)
        rej == \/ bcmd \in {"BC_ENTER_LOOPER", "BC_REGISTER_LOOPER"}
                  /\ HasBit(st, BINDER_LOOPER_STATE_ACTIVE)
               \/ bcmd = "BC_EXIT_LOOPER" /\ ~HasBit(st, BINDER_LOOPER_STATE_ENTERED)
    IN  [s EXCEPT !.gh.lp = [on |-> TRUE, cmd |-> bcmd, was |-> s0.gh.entered[tid],
                             rej |-> rej,
                             dn |-> s.num_loopers[p] - s0.num_loopers[p],
                             same |-> /\ s.looper[tid] = st
                                      /\ s.num_loopers[p] = s0.num_loopers[p]
                                      /\ s.pending_loopers[p] = s0.pending_loopers[p]],
                  !.gh.entered[tid] = IF rej THEN @
                                      ELSE IF bcmd = "BC_ENTER_LOOPER" THEN TRUE
                                      ELSE IF bcmd = "BC_EXIT_LOOPER" THEN FALSE
                                      ELSE @]

\* bcmd_write_looper, with the history kept
LooperNoted(s, tid, bcmd, nd) ==
    NoteLooper(s, bcmd_write_looper(s, tid, bcmd, nd), tid, bcmd,
               IF s.looper[tid] < 0 THEN nd.st0 ELSE s.looper[tid])

\* the size of one record of the write stream
RecSize(c) ==
    IF c.bcmd \in {"BC_TRANSACTION", "BC_REPLY"} THEN CmdSize + TdataSize
    ELSE IF c.bcmd \in {"BC_REQUEST_DEATH_NOTIFICATION", "BC_CLEAR_DEATH_NOTIFICATION"}
    THEN CmdSize + NotifierSize
    ELSE CmdSize

RECURSIVE BatchSize(_)
BatchSize(cmds) == IF cmds = <<>> THEN 0 ELSE RecSize(Head(cmds)) + BatchSize(Tail(cmds))

\* the validation of a transaction record in binder_thread_write
TdataValid(td) ==
    LET offsets_size == td.noffs * OffsetSize
        objs_size == (offsets_size \div OffsetSize) * FlatObjSize
    IN  td.data_size > 0 =>
            ~(objs_size + offsets_size > td.data_size \/ td.data_size > MAX_TRANSACTION_SIZE)

\* binder_thread_write over the records cmds, from byte off of a buffer of size
\* bytes: [s, ret], ret the bytes consumed or a negated errno.  The handlers'
\* results are summed into err and not looked at again
RECURSIVE binder_thread_write(_, _, _, _, _, _)
binder_thread_write(s, tid, cmds, off, size, nd) ==
    IF s.rd[tid].pc # "write" THEN [s |-> s, ret |-> off]
    ELSE IF ~(off + CmdSize < size) THEN [s |-> s, ret |-> off]
    ELSE IF cmds = <<>> THEN [s |-> s, ret |-> -EINVAL]
    ELSE LET c == Head(cmds)
             nx == off + RecSize(c)
         IN  IF c.bcmd \in {"BC_TRANSACTION", "BC_REPLY"}
             THEN IF nx > size THEN [s |-> s, ret |-> -EFAULT]
                  ELSE IF ~TdataValid(c.td) THEN [s |-> s, ret |-> -EINVAL]
                  ELSE binder_thread_write(
                           SendNoted(s, bcmd_write_transaction(s, tid, c.td, c.bcmd, nd),
                                     tid, c.td, c.bcmd, nd),
                           tid, Tail(cmds), nx, size, nd)
             ELSE IF c.bcmd \in {"BC_REQUEST_DEATH_NOTIFICATION", "BC_CLEAR_DEATH_NOTIFICATION"}
             THEN IF nx > size THEN [s |-> s, ret |-> -EFAULT]
                  ELSE binder_thread_write(bcmd_write_notifier(s, tid, c.nf, c.bcmd, nd),
                                           tid, Tail(cmds), nx, size, nd)
             ELSE IF c.bcmd \in {"BC_ENTER_LOOPER", "BC_EXIT_LOOPER", "BC_REGISTER_LOOPER"}
             THEN binder_thread_write(LooperNoted(s, tid, c.bcmd, nd),
                                      tid, Tail(cmds), nx, size, nd)
             ELSE [s |-> s, ret |-> -EINVAL]

\* ----------------------------------------------------------------- read path
\* one command of the read stream, with what it carries
OutRec(cmd, ptr, cookie, id) == [cmd |-> cmd, ptr |-> ptr, cookie |-> cookie, id |-> id]

Emit(s, tid, rec) == [s EXCEPT !.rd[tid].out = Append(@, rec)]

\* the number of BR_DEAD_BINDER commands of out that carry cookie d
RECURSIVE DeadCount(_, _)
DeadCount(out, d) ==
    IF out = <<>> THEN 0
    ELSE (IF Head(out).cmd = "BR_DEAD_BINDER" /\ Head(out).cookie = d THEN 1 ELSE 0)
         + DeadCount(Tail(out), d)

HasCmd(out, cmd) == \E i \in 1..Len(out) : out[i].cmd = cmd

\* the ioctl returns ret to its caller; the history of what a returned read
\* has produced is taken here
Return(s, tid, ret) ==
    LET r    == s.rd[tid]
        read == r.pc = "reading" /\ r.rsize >= CmdSize
        e    == s.gh.err[tid]
        dn   == s.gh.dn
        cd   == s.gh.cd
        ack  == s.gh.ack
    IN  [s EXCEPT !.rd[tid].pc = "idle", !.rd[tid].ret = ret, !.rd[tid].q = NULL,
                  !.gh.err[tid] =
                      IF read /\ ret >= CmdSize /\ e.code # NoError /\ e.reads = 0
                      THEN [e EXCEPT !.reads = 1, !.seen = HasCmd(r.out, e.code)]
                      ELSE e,
                  !.gh.dn =
                      IF read /\ dn.on /\ dn.released /\ dn.b = tid /\ dn.reads = 0
                      THEN [dn EXCEPT !.reads = 1, !.dead = DeadCount(r.out, dn.d)]
                      ELSE dn,
                  !.gh.ack =
                      IF read /\ ack.on /\ ack.tid = tid /\ ack.reads = 0
                      THEN [ack EXCEPT !.reads = 1, !.ret = ret,
                                       !.seen = HasCmd(r.out, "BR_TRANSACTION_COMPLETE")]
                      ELSE ack,
                  !.gh.cd =
                      IF read /\ cd.on /\ cd.tid = tid /\ cd.reads < ReadsBound
                      THEN [cd EXCEPT !.reads = @ + 1,
                                      !.seen = @ \/ HasCmd(r.out, "BR_DEAD_REPLY")]
                      ELSE cd]

\* the while loop of bcmd_read_transaction: p is never advanced
RECURSIVE ReadOffsets(_, _, _, _)
\* w is what bcmd_read_flat_obj made of the descriptor
ReadOffsetsOn(t, p, bp, junk, w) ==
    IF w.r # "OK" THEN w
    ELSE IF w.t = t /\ w.bp = bp THEN [r |-> "HANG", t |-> t, bp |-> bp]
    ELSE ReadOffsets(w.t, p, w.bp, junk)
ReadOffsets(t, p, bp, junk) == ReadOffsetsOn(t, p, bp, junk, bcmd_read_flat_obj(t, p, bp, junk))

ErrnoOf(r) == IF r = "EINVAL" THEN -EINVAL ELSE IF r = "EFAULT" THEN -EFAULT ELSE -ENOMEM

\* history of the delivery of the transaction that gh.txn follows
NoteRx(s, tid, msg, junk) ==
    LET p == ProcOf(tid)
        o == binder_find_obj_(s.objs[p], PQ(p), msg.binder)
    IN  IF s.gh.txn.on /\ s.gh.txn.id = msg.id /\ msg.type = "BC_TRANSACTION"
        THEN [s EXCEPT !.gh.rx = [on |-> TRUE, q |-> PQ(p), ptr |-> msg.binder,
                                  cookie |-> junk,
                                  real |-> IF o = NULL THEN NULL
                                           ELSE s.objs[p].node[o].real_cookie]]
        ELSE s

\* bcmd_read_transaction on a reply: thread->pending_replies-- if it is positive
ReplyRead(s, tid) ==
    IF s.pending_replies[tid] > 0 THEN [s EXCEPT !.pending_replies[tid] = @ - 1] ELSE s

\* bcmd_read_transaction from the point where the descriptors are read (ro)
ReadTranslated(s, tid, msg, size, junk, ro) ==
    LET p == ProcOf(tid)
        cmd == IF msg.type = "BC_TRANSACTION" THEN "BR_TRANSACTION" ELSE "BR_REPLY"
        data_off == MSG_BUF_ALIGN(CmdSize + TdataSize)
        s1 == [s EXCEPT !.objs[p] = ro.t]
        s2 == NoteRx(Emit(s1, tid, OutRec(cmd, msg.binder, junk, msg.id)), tid, msg, junk)
        s3 == IF msg.type = "BC_TRANSACTION"
              THEN IF ~msg.oneway
                   THEN [s2 EXCEPT !.incoming[tid] = <<msg>> \o @,
                                   !.gh.order[tid] = Append(@, [id |-> msg.id, from |-> msg.from])]
                   ELSE s2
              ELSE ReplyRead([s2 EXCEPT !.gh.owed[tid] = @ - 1], tid)
    IN  IF data_off + msg.data_size > size THEN [n |-> -ENOSPC, s |-> s, taken |-> FALSE]
        ELSE IF ro.r = "HANG" THEN [n |-> 0, s |-> Stuck(s1, tid, "hung"), taken |-> FALSE]
        ELSE IF ro.r # "OK" THEN [n |-> ErrnoOf(ro.r), s |-> s1, taken |-> FALSE]
        ELSE [n |-> data_off + msg.data_size, s |-> s3, taken |-> TRUE]

\* bcmd_read_transaction: [n, s, taken]; taken is *pmsg = NULL.  tdata.cookie
\* is never assigned: the caller reads what the stack held (junk)
RECURSIVE ReadVisits(_, _, _, _)
ReadVisitsOn(t, p, bp, junk, w) ==
    IF w.r # "OK" \/ (w.t = t /\ w.bp = bp) THEN 1 ELSE 1 + ReadVisits(w.t, p, w.bp, junk)
ReadVisits(t, p, bp, junk) == ReadVisitsOn(t, p, bp, junk, bcmd_read_flat_obj(t, p, bp, junk))

\* the history gh.xl.r of the loop of bcmd_read_transaction; res is the
\* function's result
NoteXr(s, tid, msg, junk, res) ==
    IF /\ msg.noffs > 0 /\ res.n # -ENOSPC
       /\ bcmd_read_flat_obj(s.objs[ProcOf(tid)], ProcOf(tid), msg.bp, junk).r = "OK"
    THEN [res EXCEPT !.s.gh.xl.r =
            [on |-> TRUE, n |-> msg.noffs,
             left |-> ReadOffsets(s.objs[ProcOf(tid)], ProcOf(tid), msg.bp, junk).r,
             visits |-> ReadVisits(s.objs[ProcOf(tid)], ProcOf(tid), msg.bp, junk),
             moved |-> res.taken]]
    ELSE res

bcmd_read_transaction(s, tid, msg, size, junk) ==
    NoteXr(s, tid, msg, junk,
           ReadTranslated(s, tid, msg, size, junk,
                          IF msg.noffs > 0
                          THEN ReadOffsets(s.objs[ProcOf(tid)], ProcOf(tid), msg.bp, junk)
                          ELSE [r |-> "OK", t |-> s.objs[ProcOf(tid)], bp |-> msg.bp]))

\* the first notifier of l from place i on with the cookie and the queue, or 0
RECURSIVE FirstMatch(_, _, _, _)
FirstMatch(l, i, cookie, nq) ==
    IF i > Len(l) THEN 0
    ELSE IF l[i].cookie = cookie /\ l[i].notify_queue = nq THEN i
    ELSE FirstMatch(l, i + 1, cookie, nq)

Remove(l, i) == SubSeq(l, 1, i - 1) \o SubSeq(l, i + 1, Len(l))

\* bcmd_read_notifier: [n, s, taken]
bcmd_read_notifier(s, tid, msg, size, nd) ==
    LET p == ProcOf(tid)
        t == s.objs[p]
        o == binder_find_obj_(t, PQ(p), msg.binder)
    IN  IF o = NULL THEN [n |-> -EFAULT, s |-> s, taken |-> FALSE]
        ELSE IF msg.type = "BC_REQUEST_DEATH_NOTIFICATION"
        THEN IF nd.alloc = "fail1" THEN [n |-> -ENOMEM, s |-> s, taken |-> FALSE]
             ELSE [n |-> 0, taken |-> TRUE,
                   s |-> [s EXCEPT !.objs[p].node[o].notifiers =
                              Append(@, [cookie |-> msg.cookie,
                                         notify_queue |-> msg.reply_queue])]]
        ELSE IF size < CmdSize THEN [n |-> -ENOSPC, s |-> s, taken |-> FALSE]
        ELSE LET i == FirstMatch(t.node[o].notifiers, 1, msg.cookie, msg.reply_queue)
             IN  IF i = 0 THEN [n |-> 0, s |-> s, taken |-> TRUE]
                 ELSE [n |-> CmdSize, taken |-> TRUE,
                       s |-> Emit([s EXCEPT !.objs[p].node[o].notifiers = Remove(@, i)], tid,
                                  OutRec("BR_CLEAR_DEATH_NOTIFICATION_DONE", NULL, NULL, msg.id))]

\* history of the last BC_CLEAR_DEATH_NOTIFICATION that the owner of its object
\* processed: found, a notifier with its cookie and its reply queue was there;
\* first, the notifiers after it are those before it less the first such one;
\* kept, the notifiers are as they were; emitted, the command went into the
\* read stream of the thread that processed it; queued, a
\* BR_CLEAR_DEATH_NOTIFICATION_DONE is on the queue of the process that sent it
NoClr == [on |-> FALSE, tid |-> <<0, 0>>, from |-> <<0, 0>>, found |-> FALSE,
          first |-> FALSE, kept |-> FALSE, emitted |-> FALSE, queued |-> FALSE]

NoteClr(s, tid, msg, res, o) ==
    IF msg.type # "BC_CLEAR_DEATH_NOTIFICATION" \/ o = NULL \/ res.n < 0 THEN res
    ELSE [res EXCEPT !.s.gh.clr =
            [on |-> TRUE, tid |-> tid, from |-> msg.from,
             found |-> FirstMatch(s.objs[ProcOf(tid)].node[o].notifiers, 1,
                                  msg.cookie, msg.reply_queue) # 0,
             first |-> res.s.objs[ProcOf(tid)].node[o].notifiers =
                           Remove(s.objs[ProcOf(tid)].node[o].notifiers,
                                  FirstMatch(s.objs[ProcOf(tid)].node[o].notifiers, 1,
                                             msg.cookie, msg.reply_queue)),
             kept |-> res.s.objs = s.objs,
             emitted |-> Len(res.s.rd[tid].out) > Len(s.rd[tid].out),
             queued |-> \E i \in 1..Len(res.s.queue[msg.reply_queue]) :
                           res.s.queue[msg.reply_queue][i].type =
                               "BR_CLEAR_DEATH_NOTIFICATION_DONE"]]

\* bcmd_read_notifier, with the history kept
NotifierNoted(s, tid, msg, sz, nd) ==
    NoteClr(s, tid, msg, bcmd_read_notifier(s, tid, msg, sz, nd),
            binder_find_obj_(s.objs[ProcOf(tid)], PQ(ProcOf(tid)), msg.binder))

\* bcmd_read_dead_binder: [n, s, taken]; the command word is all it writes
bcmd_read_dead_binder(s, tid, msg, size) ==
    IF size < CmdSize THEN [n |-> -ENOSPC, s |-> s, taken |-> FALSE]
    ELSE [n |-> CmdSize, taken |-> TRUE,
          s |-> Emit(s, tid, OutRec("BR_DEAD_BINDER", NULL, NULL, msg.id))]

NoSpawn == [on |-> FALSE, tid |-> <<0, 0>>, n |-> 0, size |-> 0, open |-> FALSE,
            before |-> 0, after |-> 0, out |-> FALSE, emitted |-> FALSE, adv |-> 0]

\* bcmd_spawn_on_busy: [n, s].  n is a size_t, so n < 0 never holds; with more
\* than one message queued it returns sizeof(cmd) whether or not it wrote one
bcmd_spawn_on_busy(s, tid, size) ==
    LET p == ProcOf(tid)
        n == Len(s.queue[PQ(p)])
        open == s.num_loopers[p] + s.pending_loopers[p] < s.max_threads[p]
        g == [NoSpawn EXCEPT !.on = TRUE, !.tid = tid, !.n = n, !.size = size,
                             !.open = open, !.before = s.pending_loopers[p],
                             !.after = s.pending_loopers[p], !.out = s.gh.spawnOut[p]]
    IN  IF size < CmdSize THEN [n |-> 0, s |-> [s EXCEPT !.gh.spawn = g]]
        ELSE IF n > 1
        THEN IF open
             THEN [n |-> CmdSize,
                   s |-> Emit([s EXCEPT !.pending_loopers[p] = @ + 1,
                                        !.gh.spawnOut[p] = TRUE,
                                        !.gh.spawn = [g EXCEPT !.emitted = TRUE,
                                                               !.adv = CmdSize,
                                                               !.after = @ + 1]],
                              tid, OutRec("BR_SPAWN_LOOPER", NULL, NULL, 0))]
             ELSE [n |-> CmdSize,
                   s |-> Emit([s EXCEPT !.gh.spawn = [g EXCEPT !.adv = CmdSize]],
                              tid, OutRec("UNWRITTEN", NULL, NULL, 0))]
        ELSE [n |-> 0, s |-> [s EXCEPT !.gh.spawn = g]]

\* the queue that an iteration of binder_thread_read takes its message from
ReadQueue(s, tid) ==
    IF s.queue[InboxOf(tid)] # <<>> \/ s.pending_replies[tid] > 0
    THEN InboxOf(tid) ELSE PQ(ProcOf(tid))

\* BC_DEAD_BINDER, the type teardown gives a message, is not a name binder.c
\* defines and not the BR_DEAD_BINDER its switch has a case for
BC_DEAD_BINDER == "BC_DEAD_BINDER"

\* the switch of binder_thread_read on the type of msg: [n, s, taken]
ReadSwitch(s, tid, msg, sz, nd) ==
    IF msg.type \in {"BC_TRANSACTION", "BC_REPLY"}
    THEN bcmd_read_transaction(s, tid, msg, sz, nd.junk)
    ELSE IF msg.type \in {"BC_REQUEST_DEATH_NOTIFICATION", "BC_CLEAR_DEATH_NOTIFICATION"}
    THEN NotifierNoted(s, tid, msg, sz, nd)
    ELSE IF msg.type = "BR_DEAD_BINDER"
    THEN bcmd_read_dead_binder(s, tid, msg, sz)
    ELSE [n |-> -EFAULT, s |-> s, taken |-> FALSE]

\* _bcmd_write_msg_head / bcmd_write_msg_head: msg goes back to the front of q
PutBackDropped(s, q, msg) == s
PutBack(s, q, msg) == [s EXCEPT !.queue[q] = <<msg>> \o @]

\* history of a tight fit: the transaction or reply msg that thread tid took
\* from q and had no room for (stage 1), and the message that was taken from q
\* next (stage 2) with the room the reader had then and what the reader got
NoFit == [stage |-> 0, tid |-> <<0, 0>>, q |-> NULL, msg |-> <<>>, ret |-> 0,
          head |-> FALSE, same |-> FALSE, next |-> <<>>, room |-> 0, n |-> 0,
          rec |-> <<>>]

NoteFit(s0, s1, tid, q, msg, sz, n) ==
    IF s1.rd[tid].pc = "hung" THEN s1
    ELSE IF n = -ENOSPC /\ msg.type \in {"BC_TRANSACTION", "BC_REPLY"}
    THEN [s1 EXCEPT !.gh.fit =
            [NoFit EXCEPT !.stage = 1, !.tid = tid, !.q = q, !.msg = msg,
                          !.ret = s1.rd[tid].ret,
                          !.head = s1.queue[q] # <<>> /\ Head(s1.queue[q]) = msg,
                          !.same = /\ s1.incoming = s0.incoming
                                   /\ s1.pending_replies = s0.pending_replies
                                   /\ s1.queue[q] = <<msg>> \o s0.queue[q]]]
    ELSE IF s0.gh.fit.stage = 1 /\ s0.gh.fit.q = q
    THEN [s1 EXCEPT !.gh.fit.stage = 2, !.gh.fit.next = msg, !.gh.fit.room = sz,
                    !.gh.fit.n = n,
                    !.gh.fit.rec = IF n > 0 /\ s1.rd[tid].out # <<>>
                                   THEN s1.rd[tid].out[Len(s1.rd[tid].out)] ELSE <<>>]
    ELSE s1

\* what the while loop of binder_thread_read does with the result res of the
\* switch on msg, taken from q
ReadAfter(s, tid, q, msg, res) ==
    IF res.s.rd[tid].pc = "hung" THEN res.s
    ELSE IF res.n = -ENOSPC
    THEN Return(PutBack(res.s, q, msg), tid, s.rd[tid].produced)
    ELSE IF res.n < 0 THEN Return(res.s, tid, res.n)
    ELSE [res.s EXCEPT !.rd[tid].size = @ - res.n, !.rd[tid].produced = @ + res.n]

\* ReadAfter, with the history of tight fits kept
ReadNoted(s, tid, q, msg, res) ==
    NoteFit(s, ReadAfter(s, tid, q, msg, res), tid, q, msg, s.rd[tid].size, res.n)

\* the body of the while loop of binder_thread_read, msg having been taken from q
ReadPass(s, tid, q, msg, nd) ==
    ReadNoted(s, tid, q, msg, ReadSwitch(s, tid, msg, s.rd[tid].size, nd))

\* the while loop of binder_thread_read, run until the call returns or waits
\* in read_msg_queue for a message on the queue rd.q it has chosen
RECURSIVE ReadLoop(_, _, _)
ReadLoop(s, tid, nd) ==
    LET r == s.rd[tid]
        q == IF r.q # NULL THEN r.q ELSE ReadQueue(s, tid)
    IN  IF r.pc # "reading" THEN s
        ELSE IF r.size < CmdSize THEN Return(s, tid, r.produced)
        ELSE IF s.queue[q] = <<>>
        THEN IF s.non_block[ProcOf(tid)] THEN Return(s, tid, -EAGAIN)
             ELSE [s EXCEPT !.rd[tid].q = q]
        ELSE ReadLoop(ReadPass([s EXCEPT !.queue[q] = Tail(@), !.rd[tid].q = NULL],
                               tid, q, Head(s.queue[q]), nd),
                      tid, nd)

\* binder_thread_read
binder_thread_read(s, tid, size, nd) ==
    LET sp == bcmd_spawn_on_busy(s, tid, size)
    IN  ReadLoop([sp.s EXCEPT !.rd[tid].pc = "reading",
                              !.rd[tid].size = size - sp.n,
                              !.rd[tid].produced = sp.n],
                 tid, nd)

\* cmd_write_read after its write half, whose result is w
ReadHalf(tid, rsize, nd, w) ==
    IF w.s.rd[tid].pc # "write" THEN w.s
    ELSE IF w.ret < 0 THEN Return(w.s, tid, w.ret)
    ELSE IF rsize > 0
    THEN binder_thread_read([w.s EXCEPT !.rd[tid].consumed = w.ret], tid, rsize, nd)
    ELSE Return([w.s EXCEPT !.rd[tid].consumed = w.ret], tid, 0)

\* the thread enters BINDER_WRITE_READ
EnterCall(s, tid, rsize) ==
    [s EXCEPT !.rd[tid] = [pc |-> "write", size |-> 0, produced |-> 0,
                           out |-> <<>>, ret |-> 0, consumed |-> 0,
                           q |-> NULL, rsize |-> rsize],
              !.gh.ncalls = @ + 1]

\* the records binder_thread_write returns -EINVAL for
BadRec(c) ==
    \/ c.bcmd \notin {"BC_TRANSACTION", "BC_REPLY", "BC_REQUEST_DEATH_NOTIFICATION",
                      "BC_CLEAR_DEATH_NOTIFICATION", "BC_ENTER_LOOPER", "BC_EXIT_LOOPER",
                      "BC_REGISTER_LOOPER"}
    \/ c.bcmd \in {"BC_TRANSACTION", "BC_REPLY"} /\ ~TdataValid(c.td)

\* the place of the first bad record of cmds from i on, or 0
RECURSIVE FirstBad(_, _)
FirstBad(cmds, i) ==
    IF i > Len(cmds) THEN 0 ELSE IF BadRec(cmds[i]) THEN i ELSE FirstBad(cmds, i + 1)

\* what the write commands of a call can change
Effects(s) == <<s.objs, s.queue, s.pending_replies, s.incoming, s.last_error,
                s.looper, s.num_loopers, s.pending_loopers>>

\* history of a call whose write batch has valid records and then a bad one:
\* the bytes of the valid records, what the ioctl returned, the write_consumed
\* the caller's binder_write_read holds after the call (binder_ioctl copies
\* the structure back only when cmd_write_read succeeded) and whether the
\* state is the one the valid records alone produce
NoBatch == [on |-> FALSE, valid |-> 0, ret |-> 0, consumed |-> 0, kept |-> FALSE]

NoteBatch(s0, s1, tid, cmds, rsize, nd, i) ==
    IF i > 1 /\ s1.rd[tid].pc = "idle"
    THEN [s1 EXCEPT !.gh.batch =
            [on |-> TRUE, valid |-> BatchSize(SubSeq(cmds, 1, i - 1)),
             ret |-> s1.rd[tid].ret,
             consumed |-> IF s1.rd[tid].ret < 0 THEN 0 ELSE s1.rd[tid].consumed,
             kept |-> /\ s1.rd[tid].ret = -EINVAL
                      /\ Effects(s1) =
                            Effects(binder_thread_write(
                                        EnterCall(s0, tid, rsize), tid,
                                        SubSeq(cmds, 1, i - 1), 0,
                                        BatchSize(SubSeq(cmds, 1, i - 1)) + CmdSize,
                                        nd).s)]]
    ELSE s1

\* cmd_write_read on a write buffer that holds the records cmds and pad bytes
\* more, and a read buffer of rsize bytes
WriteThenRead(s, tid, cmds, pad, rsize, nd) ==
    ReadHalf(tid, rsize, nd,
             IF BatchSize(cmds) + pad > 0
             THEN binder_thread_write(EnterCall(s, tid, rsize), tid, cmds, 0,
                                      BatchSize(cmds) + pad, nd)
             ELSE [s |-> EnterCall(s, tid, rsize), ret |-> 0])

\* the records of cmds that lie whole within the first n bytes of the stream
RECURSIVE Dispatched(_, _)
Dispatched(cmds, n) ==
    IF cmds = <<>> \/ RecSize(Head(cmds)) > n THEN 0
    ELSE 1 + Dispatched(Tail(cmds), n - RecSize(Head(cmds)))

\* history of the latest call whose write buffer is exactly a run of
\* recognised, well-formed records and whose write half came back: the size of
\* the buffer, its records, the last of them, the bytes binder_thread_write
\* returned and the records it had dispatched by then
NoStream == [on |-> FALSE, size |-> 0, n |-> 0, last |-> "", consumed |-> 0, done |-> 0]

NoteStream(s1, tid, cmds, pad, i) ==
    IF pad = 0 /\ cmds # <<>> /\ i = 0 /\ s1.rd[tid].pc \in {"idle", "reading"}
    THEN [s1 EXCEPT !.gh.ws =
            [on |-> TRUE, size |-> BatchSize(cmds), n |-> Len(cmds),
             last |-> cmds[Len(cmds)].bcmd, consumed |-> s1.rd[tid].consumed,
             done |-> Dispatched(cmds, s1.rd[tid].consumed)]]
    ELSE s1

BatchNoted(s, tid, cmds, pad, rsize, nd, i) ==
    NoteStream(NoteBatch(s, WriteThenRead(s, tid, cmds, pad, rsize, nd), tid, cmds,
                         rsize, nd, i),
               tid, cmds, pad, i)

cmd_write_read(s, tid, cmds, pad, rsize, nd) ==
    BatchNoted(s, tid, cmds, pad, rsize, nd, FirstBad(cmds, 1))

\* ------------------------------------------------------------------ teardown
\* free_queued_msg over the residual entries es of a destroyed queue: a
\* BC_TRANSACTION is retyped and sent to its reply queue, BUG_ON stopping the
\* teardown at one that has none; anything else is freed
RECURSIVE free_queued_msg(_, _)
free_queued_msg(s, es) ==
    IF es = <<>> \/ s.gh.bug THEN s
    ELSE LET m == Head(es)
         IN  IF m.type = "BC_TRANSACTION"
             THEN IF m.reply_queue = NULL THEN [s EXCEPT !.gh.bug = TRUE]
                  ELSE free_queued_msg(
                         bcmd_write_msg(s, m.reply_queue, [m EXCEPT !.type = BC_DEAD_BINDER]).s,
                         Tail(es))
             ELSE free_queued_msg(s, Tail(es))

\* free_msg_queue: the queue is closed, then on_drop runs on what it held
free_msg_queue(s, q) ==
    free_queued_msg([s EXCEPT !.queue[q] = <<>>, !.closed = @ \cup {q}], s.queue[q])

\* the loop of binder_free_thread over incoming_transactions
RECURSIVE FailIncoming(_, _)
FailIncoming(s, l) ==
    IF l = <<>> THEN s
    ELSE FailIncoming(
           bcmd_write_msg(s, Head(l).reply_queue, [Head(l) EXCEPT !.type = BC_DEAD_BINDER]).s,
           Tail(l))

\* binder_free_thread
binder_free_thread(s, tid) ==
    LET s1 == free_msg_queue(s, InboxOf(tid))
        s2 == FailIncoming(s1, s.incoming[tid])
    IN  IF s1.gh.bug THEN s1
        ELSE [s2 EXCEPT !.incoming[tid] = <<>>, !.pending_replies[tid] = 0,
                        !.last_error[tid] = NoError, !.gh.order[tid] = <<>>]

\* the loop of binder_free_proc over thread_tree, in pid order
RECURSIVE FreeThreads(_, _, _)
FreeThreads(s, p, t) ==
    IF t > NThreads \/ s.gh.bug THEN s
    ELSE FreeThreads(binder_free_thread(s, <<p, t>>), p, t + 1)

\* the nodes of a tree in the order rb_first / rb_erase takes them
RECURSIVE InOrder(_, _)
InOrder(t, i) ==
    IF i = NULL THEN <<>>
    ELSE InOrder(t, t.node[i].left) \o <<i>> \o InOrder(t, t.node[i].right)

\* the loop over the notifiers l of one owned object: each is unlinked and a
\* message for it is written to its queue; fan is the history of the writes.
\* The kmalloc of the message may fail, and binder_free_proc returns there
RECURSIVE FireNotifiers(_, _, _, _)
FireNotifiers(s, obj, l, nd) ==
    IF l = <<>> \/ s.gh.nomem THEN s
    ELSE IF nd.alloc = "fail1" THEN [s EXCEPT !.gh.nomem = TRUE]
    ELSE LET m == NewMsg(BC_DEAD_BINDER, obj.owner, obj.binder, FALSE, Head(l).cookie,
                         NULL, 0, 0, NoDesc, 0, <<0, 0>>, 0)
             w == bcmd_write_msg(s, Head(l).notify_queue, m)
         IN  FireNotifiers([w.s EXCEPT !.gh.fan = Append(@, [cookie |-> Head(l).cookie,
                                                             nq |-> Head(l).notify_queue,
                                                             sent |-> w.ok])],
                           obj, Tail(l), nd)

\* the loop of binder_free_proc over obj_tree; a reference is only freed
RECURSIVE FreeObjs(_, _, _, _, _)
FreeObjs(s, p, t, l, nd) ==
    IF l = <<>> \/ s.gh.nomem THEN s
    ELSE LET obj == t.node[Head(l)]
         IN  IF obj.owner # PQ(p) THEN FreeObjs(s, p, t, Tail(l), nd)
             ELSE FreeObjs(FireNotifiers(s, obj, obj.notifiers, nd), p, t, Tail(l), nd)

\* the synchronous transactions queued on q, as history
InFlight(s, q) ==
    {[id |-> s.queue[q][i].id, rq |-> s.queue[q][i].reply_queue] :
        i \in {i \in 1..Len(s.queue[q]) :
                  s.queue[q][i].type = "BC_TRANSACTION" /\ ~s.queue[q][i].oneway}}

\* the synchronous transactions that process p has received and not replied
\* to, as history: those still on its queue and those on the
\* incoming_transactions of its threads, each with its caller from and the
\* caller's pending_replies pr
Unreplied(s, l) ==
    {[id |-> l[i].id, rq |-> l[i].reply_queue, from |-> l[i].from,
      pr |-> s.pending_replies[l[i].from]] :
        i \in {i \in 1..Len(l) : l[i].type = "BC_TRANSACTION" /\ ~l[i].oneway}}
Orphans(s, p) ==
    Unreplied(s, s.queue[PQ(p)])
        \cup UNION {Unreplied(s, s.incoming[<<p, t>>]) : t \in Threads}

\* binder_free_proc, called by binder_release
binder_free_proc(s, p, nd) ==
    LET t  == s.objs[p]
        s0 == [s EXCEPT !.alive = @ \ {p},
                        !.gh.drained = InFlight(s, PQ(p)),
                        !.gh.orphans = Orphans(s, p),
                        !.gh.fan = <<>>,
                        !.gh.nomem = FALSE,
                        !.gh.released = @ \cup {p},
                        !.gh.dn.released = @ \/ (s.gh.dn.on /\ s.gh.dn.a = PQ(p))]
        s1 == free_msg_queue(s0, PQ(p))
        s2 == FreeThreads(s1, p, 1)
        s3 == FreeObjs(s2, p, t, InOrder(t, t.root), nd)
    IN  IF s2.gh.bug THEN s2
        ELSE [s3 EXCEPT !.objs[p] = EmptyTree]

\* a descriptor followed from its owner a to b, from b to c and from c back to
\* a: stage 1 a has written it, 2 b has read it, 3 b has written it again,
\* 4 c has read it, 5 c has written it again, 6 a has read it; 9 a
\* translation failed, at the stage `at`
NoPass == [stage |-> 0, at |-> 0, a |-> 0, b |-> 0, c |-> 0, orig |-> <<>>,
           cur |-> <<>>, seen |-> <<>>, ref |-> FALSE]

HasEntry(t, owner, binder) ==
    \E i \in 1..Len(t.node) : t.node[i].owner = owner /\ t.node[i].binder = binder

\* ---------------------------------------------------------- context manager
\* history of BINDER_SET_CONTEXT_MGR: the first call, and the last call made
\* after it under another euid
NoMgr == [calls |-> 0, q |-> NULL, euid |-> -1, ret |-> 0, obj |-> NULL, uid |-> -1,
          later |-> FALSE, lret |-> 0, kept |-> TRUE]

NoteMgr(s0, s, tid, euid, ret) ==
    LET g == s0.gh.mgr
    IN  IF g.calls = 0
        THEN [s EXCEPT !.gh.mgr = [g EXCEPT !.calls = 1, !.q = PQ(ProcOf(tid)),
                                            !.euid = euid, !.ret = ret,
                                            !.obj = s.context_mgr_obj,
                                            !.uid = s.context_mgr_uid]]
        ELSE IF euid # g.euid
        THEN [s EXCEPT !.gh.mgr = [g EXCEPT !.calls = 2, !.later = TRUE, !.lret = ret,
                                            !.kept = /\ s.context_mgr_obj = s0.context_mgr_obj
                                                     /\ s.context_mgr_uid = s0.context_mgr_uid]]
        ELSE [s EXCEPT !.gh.mgr.calls = 2]

\* cmd_set_context_mgr of a thread of process p under euid: [s, ret]
cmd_set_context_mgr(s, p, euid, nd) ==
    IF s.context_mgr_obj = NULL THEN [s |-> s, ret |-> -EBUSY]
    ELSE IF s.context_mgr_uid # -1 /\ s.context_mgr_uid # euid
    THEN [s |-> s, ret |-> -EPERM]
    ELSE IF nd.alloc = "fail1"
    THEN [s |-> [s EXCEPT !.context_mgr_uid = euid, !.context_mgr_obj = NULL],
          ret |-> -ENOMEM]
    ELSE [s |-> [s EXCEPT !.context_mgr_uid = euid,
                          !.objs[p] = binder_new_obj_(@, PQ(p), NULL, nd.junk).t,
                          !.context_mgr_obj = PQ(p)],
          ret |-> 0]

\* -------------------------------------------------------------------- state
NoProbe == [stage |-> 0, a |-> 0, b |-> 0, orig |-> <<>>, cur |-> <<>>]
IdleRd == [pc |-> "idle", size |-> 0, produced |-> 0, out |-> <<>>, ret |-> 0,
           consumed |-> 0, q |-> NULL, rsize |-> 0]
NoErr == [code |-> NoError, reads |-> 0, seen |-> FALSE]

\* binder_open of every process and binder_new_thread of every thread: process
\* 1 has its device open in blocking mode, the others with O_NONBLOCK
Init ==
    /\ alive = Procs
    /\ non_block = [p \in Procs |-> p > 1]
    /\ objs = [p \in Procs |-> EmptyTree]
    /\ queue = [q \in QIds |-> <<>>]
    /\ closed = {}
    /\ pending_replies = [tid \in Tids |-> 0]
    /\ incoming = [tid \in Tids |-> <<>>]
    /\ last_error = [tid \in Tids |-> NoError]
    /\ looper = [tid \in Tids |-> -1]
    /\ max_threads = [p \in Procs |-> 0]
    /\ num_loopers = [p \in Procs |-> 0]
    /\ pending_loopers = [p \in Procs |-> 0]
    /\ rd = [tid \in Tids |-> IdleRd]
    /\ context_mgr_obj = NULL
    /\ context_mgr_uid = -1
    /\ gh = [rt |-> NoProbe, nmsg |-> 0, ncalls |-> 0,
             err |-> [tid \in Tids |-> NoErr],
             spawn |-> NoSpawn, spawnOut |-> [p \in Procs |-> FALSE],
             txn |-> NoTxn, rx |-> NoRx, reply |-> NoReply,
             order |-> [tid \in Tids |-> <<>>],
             dn |-> NoDn, cd |-> NoCd, fan |-> <<>>, drained |-> {}, released |-> {},
             bug |-> FALSE, nomem |-> FALSE, fit |-> NoFit, mgr |-> NoMgr,
             tp |-> NoPass, batch |-> NoBatch,
             pay |-> NoPay, ack |-> NoAck, owed |-> [tid \in Tids |-> 0],
             lp |-> NoLp, entered |-> [tid \in Tids |-> FALSE],
             clr |-> NoClr, ws |-> NoStream, xl |-> NoXl, orphans |-> {}]

rest == <<alive, non_block, queue, closed, pending_replies, incoming, last_error,
          looper, max_threads, num_loopers, pending_loopers, rd,
          context_mgr_obj, context_mgr_uid>>

\* the objects allocated, over the processes 1..p
RECURSIVE NodesIn(_, _)
NodesIn(o, p) == IF p = 0 THEN 0 ELSE Len(o[p].node) + NodesIn(o, p - 1)
Room(p, t, room) == NodesIn([objs EXCEPT ![p] = t], NProcs) <= room

\* ------------------------------------ translator steps on a single descriptor
XWrite(p, bp, room) ==
    LET w == bcmd_write_flat_obj(objs[p], p, bp)
    IN  /\ p \in alive
        /\ Room(p, w.t, room)
        /\ w.t # objs[p]
        /\ objs' = [objs EXCEPT ![p] = w.t]
        /\ UNCHANGED <<rest, gh>>

\* process a has made an object of binder
Owns(a, binder) ==
    \E i \in 1..Len(objs[a].node) :
        objs[a].node[i].owner = PQ(a) /\ objs[a].node[i].binder = binder

\* the descriptor read is one that its owner has written
XRead(p, bp, room) ==
    \E junk \in Garbage :
        LET w == bcmd_read_flat_obj(objs[p], p, bp, junk)
        IN  /\ p \in alive
            /\ \E a \in alive : PQ(a) = bp.cookie /\ Owns(a, bp.binder)
            /\ Room(p, w.t, room)
            /\ w.t # objs[p]
            /\ objs' = [objs EXCEPT ![p] = w.t]
            /\ UNCHANGED <<rest, gh>>

\* a descriptor followed from its owner a to b and back
RtSend(a, b, bp) ==
    /\ gh.rt.stage = 0
    /\ LET o == binder_find_obj_(objs[a], PQ(a), bp.binder)
       IN  IF o = NULL THEN TRUE ELSE objs[a].node[o].real_cookie = bp.cookie
    /\ LET w == bcmd_write_flat_obj(objs[a], a, bp)
       IN  /\ Room(a, w.t, MaxObjs)
           /\ objs' = [objs EXCEPT ![a] = w.t]
           /\ gh' = [gh EXCEPT !.rt = [stage |-> IF w.r = "OK" THEN 1 ELSE 5,
                                       a |-> a, b |-> b, orig |-> bp, cur |-> w.bp]]
    /\ UNCHANGED rest

RtRecv ==
    /\ gh.rt.stage \in {1, 3}
    /\ \E junk \in Garbage :
        LET p == IF gh.rt.stage = 1 THEN gh.rt.b ELSE gh.rt.a
            w == bcmd_read_flat_obj(objs[p], p, gh.rt.cur, junk)
        IN  /\ Room(p, w.t, MaxObjs)
            /\ objs' = [objs EXCEPT ![p] = w.t]
            /\ gh' = [gh EXCEPT !.rt.stage = IF w.r = "OK" THEN @ + 1 ELSE 5,
                                !.rt.cur = w.bp]
    /\ UNCHANGED rest

RtReturn ==
    /\ gh.rt.stage = 2
    /\ LET p == gh.rt.b
           w == bcmd_write_flat_obj(objs[p], p, gh.rt.cur)
       IN  /\ Room(p, w.t, MaxObjs)
           /\ objs' = [objs EXCEPT ![p] = w.t]
           /\ gh' = [gh EXCEPT !.rt.stage = IF w.r = "OK" THEN 3 ELSE 5,
                               !.rt.cur = w.bp]
    /\ UNCHANGED rest

RtDone ==
    /\ gh.rt.stage \in {4, 5}
    /\ gh' = [gh EXCEPT !.rt = NoProbe]
    /\ UNCHANGED <<objs, rest>>

NextXlate ==
    \/ \E p \in Procs, bp \in OwnDescs : XWrite(p, bp, MaxObjs)
    \/ \E p \in Procs, bp \in RefDescs : XRead(p, bp, MaxObjs)
    \/ \E a \in Procs, b \in Procs, bp \in OwnDescs : RtSend(a, b, bp)
    \/ RtRecv
    \/ RtReturn
    \/ RtDone

SpecXlate == Init /\ [][NextXlate]_vars

TpSend(a, b, c, bp, room) ==
    /\ gh.tp.stage = 0
    /\ LET o == binder_find_obj_(objs[a], PQ(a), bp.binder)
       IN  IF o = NULL THEN TRUE ELSE objs[a].node[o].real_cookie = bp.cookie
    /\ LET w == bcmd_write_flat_obj(objs[a], a, bp)
       IN  /\ Room(a, w.t, room)
           /\ objs' = [objs EXCEPT ![a] = w.t]
           /\ gh' = [gh EXCEPT !.tp = [NoPass EXCEPT !.stage = IF w.r = "OK" THEN 1 ELSE 9,
                                                     !.a = a, !.b = b, !.c = c,
                                                     !.orig = bp, !.cur = w.bp]]
    /\ UNCHANGED rest

TpRead(room) ==
    /\ gh.tp.stage \in {1, 3, 5}
    /\ \E junk \in Garbage :
        LET p == IF gh.tp.stage = 1 THEN gh.tp.b
                 ELSE IF gh.tp.stage = 3 THEN gh.tp.c ELSE gh.tp.a
            w == bcmd_read_flat_obj(objs[p], p, gh.tp.cur, junk)
        IN  /\ Room(p, w.t, room)
            /\ objs' = [objs EXCEPT ![p] = w.t]
            /\ gh' = [gh EXCEPT !.tp.stage = IF w.r = "OK" THEN @ + 1 ELSE 9,
                                !.tp.at = gh.tp.stage,
                                !.tp.cur = w.bp,
                                !.tp.seen = IF gh.tp.stage = 3 THEN w.bp ELSE @,
                                !.tp.ref = IF gh.tp.stage = 3
                                           THEN HasEntry(w.t, PQ(gh.tp.a), gh.tp.orig.binder)
                                           ELSE @]
    /\ UNCHANGED rest

TpWrite(room) ==
    /\ gh.tp.stage \in {2, 4}
    /\ LET p == IF gh.tp.stage = 2 THEN gh.tp.b ELSE gh.tp.c
           w == bcmd_write_flat_obj(objs[p], p, gh.tp.cur)
       IN  /\ Room(p, w.t, room)
           /\ objs' = [objs EXCEPT ![p] = w.t]
           /\ gh' = [gh EXCEPT !.tp.stage = IF w.r = "OK" THEN @ + 1 ELSE 9,
                               !.tp.at = gh.tp.stage,
                               !.tp.cur = w.bp]
    /\ UNCHANGED rest

TpDone ==
    /\ gh.tp.stage \in {6, 9}
    /\ gh' = [gh EXCEPT !.tp = NoPass]
    /\ UNCHANGED <<objs, rest>>

\* process 1 passes its objects to process 2, which forwards them to process 3
PassObjs == 5
NextPass ==
    \/ \E p \in Procs, b \in Binders :
          XWrite(p, [type |-> "BINDER", binder |-> b, cookie |-> 1], PassObjs)
    \/ \E bp \in OwnDescs : TpSend(1, 2, 3, bp, PassObjs)
    \/ TpRead(PassObjs)
    \/ TpWrite(PassObjs)
    \/ TpDone

SpecPass == Init /\ [][NextPass]_vars

\* ------------------------------------------------------------------- ioctls
\* BINDER_WRITE_READ by thread tid; calls and msgs bound the run
WriteRead(tid, cmds, pad, rsize, nd, calls, msgs) ==
    /\ ProcOf(tid) \in alive
    /\ rd[tid].pc = "idle"
    /\ gh.ncalls < calls
    /\ gh.nmsg + Len(cmds) <= msgs
    /\ Commit(cmd_write_read(St, tid, cmds, pad, rsize, nd))

\* a thread waiting in read_msg_queue is given the message that has come
ReadWake(tid, nd) ==
    /\ ProcOf(tid) \in alive
    /\ rd[tid].pc = "reading"
    /\ rd[tid].q # NULL
    /\ queue[rd[tid].q] # <<>>
    /\ Commit(ReadLoop(St, tid, nd))

\* BINDER_SET_MAX_THREADS: cmd_set_max_threads
SetMaxThreads(tid, n, calls) ==
    /\ ProcOf(tid) \in alive
    /\ rd[tid].pc = "idle"
    /\ gh.ncalls < calls
    /\ max_threads[ProcOf(tid)] # n
    /\ Commit([St EXCEPT !.max_threads[ProcOf(tid)] = n, !.gh.ncalls = @ + 1])

\* BINDER_SET_CONTEXT_MGR by thread tid, its process running under euid
SetContextMgrDone(s0, tid, euid, r) ==
    NoteMgr(s0, Return([r.s EXCEPT !.gh.ncalls = @ + 1], tid, r.ret), tid, euid, r.ret)

SetContextMgr(tid, euid, nd, calls) ==
    /\ ProcOf(tid) \in alive
    /\ rd[tid].pc = "idle"
    /\ gh.ncalls < calls
    /\ Commit(SetContextMgrDone(St, tid, euid, cmd_set_context_mgr(St, ProcOf(tid), euid, nd)))

\* binder_release: the last reference to the file is gone, so no thread of the
\* process is inside an ioctl
Release(p, nd) ==
    /\ p \in alive
    /\ \A t \in Threads : rd[<<p, t>>].pc \in {"idle", "dead"}
    /\ Commit(binder_free_proc(St, p, nd))

\* ------------------------------------------------------------------- inputs
Td(handle, oneway, ds, noffs, bp, copy_ok) ==
    [handle |-> handle, oneway |-> oneway, data_size |-> ds, noffs |-> noffs,
     bp |-> bp, copy_ok |-> copy_ok]
Txn(handle, oneway) ==
    [bcmd |-> "BC_TRANSACTION", td |-> Td(handle, oneway, 0, 0, NoDesc, TRUE)]
Reply == [bcmd |-> "BC_REPLY", td |-> Td(NULL, FALSE, 0, 0, NoDesc, TRUE)]
Notif(bcmd, binder, cookie) == [bcmd |-> bcmd, nf |-> [binder |-> binder, cookie |-> cookie]]
Looper(bcmd) == [bcmd |-> bcmd]

\* what the environment decides in a call: whether kmalloc fails (for the
\* message, "fail1", or for its BR_TRANSACTION_COMPLETE, "fail2"), whether the
\* NULL dereference of BC_REPLY kills the thread, and the uninitialised words
Nds(allocs, oopses, junks, st0s) == [alloc : allocs, oops : oopses, junk : junks, st0 : st0s]

\* the read buffer that holds exactly one payload-free transaction
OneTxn == MSG_BUF_ALIGN(CmdSize + TdataSize)

\* ------------------------------------------------- transactions, two processes
TxnCalls == 3
PayTds ==
    {Td(1, FALSE, DataLen, 0, NoDesc, TRUE),
     Td(1, FALSE, DataLen, 1, [type |-> "BINDER", binder |-> 2, cookie |-> 1], TRUE),
     Td(1, FALSE, DataLen, 1, [type |-> "OTHER", binder |-> 1, cookie |-> 1], TRUE)}
TxnCmds ==
    {<<>>, <<Reply>>}
    \cup {<<Txn(h, ow)>> : h \in {NULL, 1}, ow \in BOOLEAN}
    \cup {<<[bcmd |-> "BC_TRANSACTION", td |-> td]>> : td \in PayTds}
TxnNds == Nds({"ok", "fail1", "fail2"}, {FALSE}, Garbage, {0})

\* process 1 owns binder 1 and has two threads at work, process 2 holds a
\* reference to it and has one
TxnTids == {<<1, 1>>, <<1, 2>>, <<2, 1>>}

NextTxn ==
    \/ XWrite(1, [type |-> "BINDER", binder |-> 1, cookie |-> 1], SeedObjs)
    \/ XRead(2, [type |-> "HANDLE", binder |-> 1, cookie |-> PQ(1)], SeedObjs)
    \/ \E tid \in TxnTids, cmds \in TxnCmds, rsize \in {0, OneTxn}, nd \in TxnNds :
          WriteRead(tid, cmds, 0, rsize, nd, TxnCalls, MaxMsgs)
    \/ \E tid \in TxnTids, nd \in TxnNds : ReadWake(tid, nd)

SpecTxn == Init /\ [][NextTxn]_vars

\* ------------------------------------- nested transactions, within process 1
NestCalls == 5
NestTids == {<<1, t>> : t \in Threads}
NestCmds == {<<>>, <<Reply>>, <<Txn(1, FALSE)>>}
NestNds == Nds({"ok"}, BOOLEAN, {NULL}, {0})

NextNest ==
    \/ XWrite(1, [type |-> "BINDER", binder |-> 1, cookie |-> 1], SeedObjs)
    \/ \E tid \in NestTids, cmds \in NestCmds, rsize \in {0, CmdSize, OneTxn}, nd \in NestNds :
          WriteRead(tid, cmds, 0, rsize, nd, NestCalls, MaxMsgs)
    \/ \E tid \in NestTids, nd \in NestNds : ReadWake(tid, nd)

SpecNest == Init /\ [][NextNest]_vars

\* --------------------------------------------- death notification and teardown
DeathCalls == 3
DeathCmds ==
    {<<>>, <<Txn(1, FALSE)>>, <<Txn(1, TRUE)>>}
    \cup {<<Notif(b, 1, d)>> : b \in {"BC_REQUEST_DEATH_NOTIFICATION",
                                      "BC_CLEAR_DEATH_NOTIFICATION"}, d \in Cookies}
DeathNds == Nds({"ok", "fail1"}, {FALSE}, {NULL}, {0})
DeathTids == {<<1, 1>>, <<1, 2>>, <<2, 1>>}

NextDeath ==
    \/ XWrite(1, [type |-> "BINDER", binder |-> 1, cookie |-> 1], SeedObjs)
    \/ XRead(2, [type |-> "HANDLE", binder |-> 1, cookie |-> PQ(1)], SeedObjs)
    \/ \E tid \in DeathTids, cmds \in DeathCmds, rsize \in {0, OneTxn}, nd \in DeathNds :
          WriteRead(tid, cmds, 0, rsize, nd, DeathCalls, MaxMsgs)
    \/ \E tid \in DeathTids, nd \in DeathNds : ReadWake(tid, nd)
    \/ \E p \in Procs, nd \in DeathNds : Release(p, nd)

SpecDeath == Init /\ [][NextDeath]_vars

\* ------------------------------------------------------ loopers, in process 1
LoopCalls == 4
MaxLoopers == 2
LoopCmds ==
    {<<>>, <<Txn(1, TRUE)>>, <<Txn(1, TRUE), Txn(1, TRUE)>>}
    \cup {<<Looper(b)>> : b \in {"BC_ENTER_LOOPER", "BC_EXIT_LOOPER", "BC_REGISTER_LOOPER"}}
LoopNds == Nds({"ok"}, {FALSE}, {NULL}, {0, BINDER_LOOPER_STATE_ENTERED})

NextLoop ==
    \/ XWrite(1, [type |-> "BINDER", binder |-> 1, cookie |-> 1], SeedObjs)
    \/ \E tid \in NestTids, cmds \in LoopCmds, rsize \in {0, CmdSize}, nd \in LoopNds :
          WriteRead(tid, cmds, CmdSize, rsize, nd, LoopCalls, MaxMsgs)
    \/ \E tid \in NestTids, nd \in LoopNds : ReadWake(tid, nd)
    \/ \E tid \in NestTids, n \in {0, MaxLoopers} : SetMaxThreads(tid, n, LoopCalls)

SpecLoop == Init /\ [][NextLoop]_vars

\* --------------------------------------------------------- context manager
MgrCalls == 3
Uids == {1000, 1001}
MgrCmds == {<<>>, <<Txn(NULL, FALSE)>>, <<Txn(NULL, TRUE)>>, <<Txn(1, TRUE)>>}

NextMgr ==
    \/ XWrite(1, [type |-> "BINDER", binder |-> 1, cookie |-> 1], SeedObjs)
    \/ \E tid \in TxnTids, cmds \in MgrCmds, rsize \in {0, OneTxn}, nd \in DeathNds :
          WriteRead(tid, cmds, 0, rsize, nd, MgrCalls, MaxMsgs)
    \/ \E tid \in TxnTids, nd \in DeathNds : ReadWake(tid, nd)
    \/ \E tid \in TxnTids, euid \in Uids, nd \in DeathNds :
          SetContextMgr(tid, euid, nd, MgrCalls)

SpecMgr == Init /\ [][NextMgr]_vars

\* ------------------------------------------- write batches with a bad record
BatchCalls == 3
BadCmd == [bcmd |-> "BC_NONE"]
BadTxn == [bcmd |-> "BC_TRANSACTION", td |-> Td(1, TRUE, DataLen, 2, NoDesc, TRUE)]
BatchCmds ==
    {<<>>, <<Txn(1, TRUE)>>, <<Looper("BC_ENTER_LOOPER")>>}
    \cup {<<c, b>> : c \in {Txn(1, TRUE), Txn(1, FALSE), Looper("BC_ENTER_LOOPER")},
                     b \in {BadCmd, BadTxn}}

NextBatch ==
    \/ XWrite(1, [type |-> "BINDER", binder |-> 1, cookie |-> 1], SeedObjs)
    \/ \E tid \in NestTids, cmds \in BatchCmds, pad \in {0, CmdSize},
          rsize \in {0, OneTxn}, nd \in LoopNds :
          WriteRead(tid, cmds, pad, rsize, nd, BatchCalls, MaxMsgs)
    \/ \E tid \in NestTids, nd \in LoopNds : ReadWake(tid, nd)

SpecBatch == Init /\ [][NextBatch]_vars

\* ------------------------------------- replies counted, within process 1
CountCalls == 5
CountCmds == {<<>>, <<Reply>>, <<Txn(1, FALSE)>>, <<Txn(1, TRUE)>>, <<Txn(NULL, FALSE)>>}
CountNds == Nds({"ok"}, {FALSE}, {NULL}, {0})

NextCount ==
    \/ XWrite(1, [type |-> "BINDER", binder |-> 1, cookie |-> 1], SeedObjs)
    \/ \E tid \in NestTids, cmds \in CountCmds, rsize \in {0, OneTxn}, nd \in CountNds :
          WriteRead(tid, cmds, 0, rsize, nd, CountCalls, MaxMsgs)
    \/ \E tid \in NestTids, nd \in CountNds : ReadWake(tid, nd)

SpecCount == Init /\ [][NextCount]_vars

\* ------------------------------- messages with descriptors, within process 1
DescCalls == 3
DescTds ==
    {Td(1, TRUE, DataLen, 1, [type |-> ty, binder |-> 2, cookie |-> c], TRUE) :
        ty \in {"BINDER", "HANDLE", "OTHER"}, c \in {1, PQ(1), PQ(2)}}
DescCmds == {<<>>} \cup {<<[bcmd |-> "BC_TRANSACTION", td |-> td]>> : td \in DescTds}

\* the read buffer that holds exactly one transaction with its payload
OnePay == MSG_BUF_ALIGN(CmdSize + TdataSize) + DataLen

NextDesc ==
    \/ XWrite(1, [type |-> "BINDER", binder |-> 1, cookie |-> 1], SeedObjs)
    \/ \E tid \in NestTids, cmds \in DescCmds, rsize \in {0, OnePay}, nd \in NestNds :
          WriteRead(tid, cmds, 0, rsize, nd, DescCalls, MaxMsgs)
    \/ \E tid \in NestTids, nd \in NestNds : ReadWake(tid, nd)

SpecDesc == Init /\ [][NextDesc]_vars

\* --------------------- reads with room to spare, blocking and non-blocking
\* process 1 reads in blocking mode, process 2 with O_NONBLOCK; each owns
\* binder 1 and sends to it
ReadCalls == 3
ReadTids == {<<p, t>> : p \in {1, 2}, t \in Threads}
ReadCmds == {<<>>, <<Txn(1, TRUE)>>}
TwoTxn == 2 * OneTxn

NextRead ==
    \/ \E p \in {1, 2} : XWrite(p, [type |-> "BINDER", binder |-> 1, cookie |-> 1], SeedObjs)
    \/ \E tid \in ReadTids, cmds \in ReadCmds, rsize \in {0, OneTxn, TwoTxn}, nd \in CountNds :
          WriteRead(tid, cmds, 0, rsize, nd, ReadCalls, MaxMsgs)
    \/ \E tid \in ReadTids, nd \in CountNds : ReadWake(tid, nd)

SpecRead == Init /\ [][NextRead]_vars

\* ------------------------------------------------------------------ claims

\* C1: a BINDER / WEAK_BINDER descriptor {X, c} that its owner a sent to b and
\* that b sent back is read by a with its original type, binder X and cookie c,
\* and no translation on the way fails.
C1_OwnerRoundTrip ==
    /\ gh.rt.stage # 5
    /\ gh.rt.stage = 4 => gh.rt.cur = gh.rt.orig

C1_Witness == gh.rt.stage = 4 /\ gh.rt.cur = gh.rt.orig

\* C2: a BC_TRANSACTION that a thread of B issues on handle X, B holding a
\* reference to the object X that another process A owns, is enqueued on A's
\* process queue and nowhere else; and the read that delivers it is a read of A
\* and gives target.ptr X with the cookie A recorded for X.
C2_RemoteRouting ==
    /\ gh.txn.on => gh.txn.dest # {} /\ gh.txn.dest \subseteq gh.txn.owners
    /\ gh.rx.on => /\ gh.rx.q \in gh.txn.owners
                   /\ gh.rx.ptr = gh.txn.handle
                   /\ gh.rx.cookie = gh.rx.real

\* every thread of process p waits in its read for a message on its own inbox,
\* which is empty, while a synchronous transaction that one of them issued when
\* it was servicing a transaction of another of them is still on p's queue
NestedStuck(p) ==
    /\ p \in alive
    /\ \A t \in Threads :
          /\ rd[<<p, t>>].pc = "reading"
          /\ rd[<<p, t>>].q = TQ(p, t)
          /\ queue[TQ(p, t)] = <<>>
    /\ \E i \in 1..Len(queue[PQ(p)]) :
          LET m == queue[PQ(p)][i]
          IN  /\ m.type = "BC_TRANSACTION" /\ ~m.oneway
              /\ incoming[m.from] # <<>>
              /\ LET T == Head(incoming[m.from]).from
                 IN  T # m.from /\ ProcOf(T) = p /\ pending_replies[T] > 0

\* C3: a nested synchronous transaction, issued back to process X by the thread
\* that services a transaction of X's thread T while T waits for its reply, is
\* never left on X's process queue with every thread of X waiting on its inbox:
\* the nested call gets delivered.
C3_NestedDelivered == \A p \in Procs : ~NestedStuck(p)

\* no step leaves the state that C3 excludes
C3_StuckForGood == [][\A p \in Procs : NestedStuck(p) => NestedStuck(p)']_vars

\* C4: a BC_REPLY of a thread with transactions delivered and not yet answered
\* is enqueued on the inbox of the initiator of the one delivered last, and
\* nowhere else; a BC_REPLY of a thread with none enqueues nothing and latches
\* BR_FAILED_REPLY.
C4_ReplyLIFO ==
    gh.reply.on =>
        IF gh.reply.empty
        THEN gh.reply.dest = {} /\ gh.reply.err = "BR_FAILED_REPLY"
        ELSE gh.reply.dest = {gh.reply.expect}

\* C5: when a process is torn down and no allocation fails, the queue of every
\* notifier registered on an object it owns gets the dead-binder message made
\* for that notifier, with the notifier's cookie.
C5_DeathFanOut ==
    ~gh.nomem => \A i \in 1..Len(gh.fan) : gh.fan[i].sent

C8_ClosedDestination ==
    gh.cd.on => /\ gh.cd.pr1 = gh.cd.pr0
                /\ gh.cd.reads = ReadsBound => gh.cd.seen

\* no read of any thread has BR_DEAD_REPLY among the commands it produced
DeadReplyNeverRead ==
    \A tid \in Tids : ~HasCmd(rd[tid].out, "BR_DEAD_REPLY")

\* C9: the first read of a thread that returns bytes after a write command of
\* the thread has latched BR_FAILED_REPLY or BR_DEAD_REPLY in last_error has
\* that code among the commands it produced and leaves last_error cleared.
C9_ErrorSurfaced ==
    \A tid \in Tids :
        gh.err[tid].reads = 1 => gh.err[tid].seen /\ last_error[tid] = NoError

\* C10: a read writes BR_SPAWN_LOOPER exactly when more than one message is on
\* the process queue, num_loopers + pending_loopers < max_threads and the buffer
\* has room for a command word; writing it adds one to pending_loopers and does
\* not happen again before a BC_REGISTER_LOOPER; a read that does not write it
\* leaves pending_loopers alone and does not advance the read stream for it.
C10_SpawnGate ==
    gh.spawn.on =>
        /\ gh.spawn.emitted <=>
              (gh.spawn.n > 1 /\ gh.spawn.open /\ gh.spawn.size >= CmdSize)
        /\ gh.spawn.emitted => gh.spawn.after = gh.spawn.before + 1 /\ ~gh.spawn.out
        /\ ~gh.spawn.emitted => gh.spawn.after = gh.spawn.before /\ gh.spawn.adv = 0

C12_ContextMgr ==
    /\ (gh.mgr.calls >= 1 /\ gh.mgr.ret # -ENOMEM) =>
          gh.mgr.ret = 0 /\ gh.mgr.obj = gh.mgr.q /\ gh.mgr.uid = gh.mgr.euid
    /\ gh.mgr.later => gh.mgr.lret = -EPERM /\ gh.mgr.kept

\* C13: whatever finds and interns have run, the object table of a process has
\* at most one entry for an (owner, binder) key.
C13_OneEntryPerKey ==
    \A p \in Procs : \A i, j \in 1..Len(objs[p].node) :
        (/\ objs[p].node[i].owner = objs[p].node[j].owner
         /\ objs[p].node[i].binder = objs[p].node[j].binder) => i = j

\* C14: when process a sends its object X to b, b forwards the descriptor to c
\* and c sends it back to a, no translation on the way fails; c reads a handle
\* descriptor with binder X and a's queue as cookie and then has an entry
\* (a's queue, X) in its table; and a reads the descriptor it sent, with its
\* type and its cookie.
C14_TransitivePass ==
    /\ gh.tp.stage # 9
    /\ gh.tp.stage \in 4..6 =>
          /\ gh.tp.seen = [type |-> HandleOf(gh.tp.orig.type), binder |-> gh.tp.orig.binder,
                           cookie |-> PQ(gh.tp.a)]
          /\ gh.tp.ref
    /\ gh.tp.stage = 6 => gh.tp.cur = gh.tp.orig

\* C15: a BINDER_WRITE_READ whose write batch has valid records and then a bad
\* one (an unknown command, or a transaction that fails the size validation)
\* returns EINVAL, leaves the state the valid records produce, and leaves in
\* the caller's write_consumed the bytes of the valid records.
C15_ProgressReported ==
    gh.batch.on =>
        /\ gh.batch.ret = -EINVAL
        /\ gh.batch.kept
        /\ gh.batch.consumed = gh.batch.valid

\* C16: a BC_TRANSACTION or BC_REPLY with data_size > 0 whose payload can be
\* copied and whose descriptors write-translation accepts is enqueued on its
\* destination; one whose copy or translation fails is enqueued nowhere and
\* leaves BR_FAILED_REPLY with the sender.
C16_PayloadHandling ==
    gh.pay.on =>
        IF gh.pay.good
        THEN gh.pay.enq # {} /\ ~gh.pay.hung
        ELSE gh.pay.enq = {} /\ gh.pay.err = "BR_FAILED_REPLY"

\* C17: after a BC_TRANSACTION or BC_REPLY of a thread has been enqueued, the
\* thread's inbox holds a zero-payload BR_TRANSACTION_COMPLETE, and the next
\* read of the thread returns no error and has BR_TRANSACTION_COMPLETE among
\* the commands it produced.
C17_CompleteAcked ==
    gh.ack.on =>
        /\ gh.ack.queued
        /\ gh.ack.reads = 1 => gh.ack.seen /\ gh.ack.ret >= 0

\* C18: in every state the pending_replies of a thread of a process that has
\* its device open is the number of synchronous BC_TRANSACTIONs the thread has
\* got enqueued less the number of replies it has read, and it is not negative.
C18_PendingAccounting ==
    \A tid \in Tids :
        ProcOf(tid) \in alive =>
            pending_replies[tid] = gh.owed[tid] /\ pending_replies[tid] >= 0

\* a thread that has had a transaction fail and has a one-way transaction
\* waiting on a queue has read the reply to its synchronous one
C18_Witness ==
    \E tid \in Tids :
        /\ ProcOf(tid) \in alive
        /\ HasCmd(rd[tid].out, "BR_REPLY")
        /\ pending_replies[tid] = 0
        /\ last_error[tid] = "BR_FAILED_REPLY"
        /\ \E q \in QIds : \E i \in 1..Len(queue[q]) :
              /\ queue[q][i].type = "BC_TRANSACTION"
              /\ queue[q][i].oneway
              /\ queue[q][i].from = tid

\* C19: a BC_ENTER_LOOPER of a thread that is entered and a BC_EXIT_LOOPER of a
\* thread that is not are refused and leave the thread's state and the
\* process's counters as they were; an accepted BC_ENTER_LOOPER adds one to
\* num_loopers and an accepted BC_EXIT_LOOPER takes one away; and num_loopers
\* is the number of the process's threads that are entered.
C19_LooperStates ==
    /\ gh.lp.on =>
          /\ (gh.lp.cmd = "BC_ENTER_LOOPER" /\ gh.lp.was) => gh.lp.rej /\ gh.lp.same
          /\ (gh.lp.cmd = "BC_EXIT_LOOPER" /\ ~gh.lp.was) => gh.lp.rej /\ gh.lp.same
          /\ (gh.lp.cmd = "BC_ENTER_LOOPER" /\ ~gh.lp.rej) => gh.lp.dn = 1
          /\ (gh.lp.cmd = "BC_EXIT_LOOPER" /\ ~gh.lp.rej) => gh.lp.dn = -1
    /\ \A p \in alive :
          num_loopers[p] = Cardinality({t \in Threads : gh.entered[<<p, t>>]})

\* C20: when the owner of an object processes a BC_CLEAR_DEATH_NOTIFICATION: if
\* a notifier with the command's cookie and its sender's queue is registered,
\* the first such notifier and no other is removed and a
\* BR_CLEAR_DEATH_NOTIFICATION_DONE is put on the sender's queue, not into the
\* read stream of the thread that processes the command; if none is, the
\* notifiers stay as they were and no such command is produced.
C20_ClearNotification ==
    gh.clr.on =>
        IF gh.clr.found
        THEN gh.clr.first /\ gh.clr.queued /\ ~gh.clr.emitted
        ELSE gh.clr.kept /\ ~gh.clr.queued /\ ~gh.clr.emitted

\* C21: a write buffer that is exactly a run of recognised, well-formed records
\* has every record dispatched, the last one and a 4-byte looper command at
\* the end included, and the whole buffer reported as consumed
C21_StreamConsumed ==
    gh.ws.on => gh.ws.consumed = gh.ws.size /\ gh.ws.done = gh.ws.n

\* C22: a message whose offsets table holds descriptors the translator accepts
\* has each of them visited once by the loop of bcmd_write_msg_buf and by the
\* loop of bcmd_read_transaction, which then end, and the message is enqueued
\* and delivered
C22_TranslationEnds ==
    /\ gh.xl.w.on => gh.xl.w.left = "OK" /\ gh.xl.w.visits = gh.xl.w.n /\ gh.xl.w.moved
    /\ gh.xl.r.on => gh.xl.r.left = "OK" /\ gh.xl.r.visits = gh.xl.r.n /\ gh.xl.r.moved

\* C23: no queue is destroyed while it holds a BC_TRANSACTION whose reply_queue
\* is NULL, so BUG_ON(!msg->reply_queue) of free_queued_msg never fires, one-way
\* transactions still queued when their destination closes included
C23_DrainAssertion == ~gh.bug

\* the read buffer holds a record decoded from a message
Decoded(out) ==
    \E i \in 1..Len(out) :
        out[i].cmd \in {"BR_TRANSACTION", "BR_REPLY", "BR_DEAD_BINDER",
                        "BR_CLEAR_DEATH_NOTIFICATION_DONE"}

\* C24: a call of binder_thread_read that has decoded a message into the read
\* buffer returns the bytes it produced: it does not wait for more messages
\* and does not return a negative error that drops what it produced
C24_ReadHandsOver ==
    \A tid \in Tids :
        ProcOf(tid) \in alive /\ Decoded(rd[tid].out) =>
            /\ ~(rd[tid].pc = "reading" /\ rd[tid].q # NULL)
            /\ rd[tid].pc = "idle" => rd[tid].ret = rd[tid].produced

====
